---------------------------- MODULE Spec2Model ----------------------------
(***************************************************************************)
(* Model of src/src/optimize.cpp (PLNmodels): the parameter packer         *)
(* (PackedInfo / Packer / make_packer), the algorithm name table, the      *)
(* nlopt wrapper minimize_objective_on_parameters, and the entry points    *)
(* cpp_optimize_* that use them.                                           *)
(*                                                                         *)
(* Doubles are abstracted to the small set Values: the packer only copies  *)
(* them.  An arma object is a record [n_rows, n_cols, at] whose `at` maps  *)
(* <<row, col>> (1-based) to the element; the packed vector, nlopt's raw   *)
(* arrays and R's numeric storage are flat sequences.  Offsets are 0-based *)
(* as in the code, so element k (1-based) of a slice is packed[offset+k].  *)
(* Armadillo is taken in its default build (bounds and size checks on).    *)
(***************************************************************************)
EXTENDS Integers, Sequences, FiniteSets, TLC

\* ------------------------------------------------------------------------
\* Bounds of the model

\* Largest packed vector of the packer test sequence
MaxPacked == 4

\* The doubles of the model
Values == {0, 1}
\* Row and column counts of the reference objects, and how many make a packer
Dims == {0, 1, 2}
GroupCounts == {1, 2}

\* ------------------------------------------------------------------------
\* arma values and R values

ArmaOfShape(R, C) ==
    {[n_rows |-> R, n_cols |-> C, at |-> f] : f \in [(1 .. R) \X (1 .. C) -> Values]}

ArmaZeros(R, C) ==
    [n_rows |-> R, n_cols |-> C, at |-> [rc \in (1 .. R) \X (1 .. C) |-> 0]]

n_elem(v) == v.n_rows * v.n_cols

\* arma::vectorise: column-major flattening of an expression
vectorise(expr) ==
    [k \in 1 .. n_elem(expr) |->
        expr.at[<<((k - 1) % expr.n_rows) + 1, ((k - 1) \div expr.n_rows) + 1>>]]

\* Mutant of reshape: the matrix is filled row by row
reshape_row_major(v, rows, cols) ==
    [n_rows |-> rows, n_cols |-> cols,
     at |-> [rc \in (1 .. rows) \X (1 .. cols) |-> v[(rc[1] - 1) * cols + rc[2]]]]

\* arma::reshape(v, size(rows, cols)) of a flat sequence: filled column by column
reshape(v, rows, cols) ==
    [n_rows |-> rows, n_cols |-> cols,
     at |-> [rc \in (1 .. rows) \X (1 .. cols) |-> v[(rc[2] - 1) * rows + rc[1]]]]

\* An R numeric value (SEXP, REALSXP): flat storage plus an optional dim attribute
\* (dim = <<>> when absent).
RNumeric(data, dim) == [type |-> "numeric", data |-> data, dim |-> dim]

\* Rcpp::is<double>: a REALSXP of length 1
is_double(r_value) == r_value.type = "numeric" /\ Len(r_value.data) = 1

\* Rcpp::as<double>
as_double(r_value) == r_value.data[1]

\* Rcpp::as<arma::vec>: every element of the storage, whatever the dim attribute
as_arma_vec(r_value) ==
    [n_rows |-> Len(r_value.data), n_cols |-> 1,
     at |-> [rc \in (1 .. Len(r_value.data)) \X {1} |-> r_value.data[rc[1]]]]

\* Rcpp::as<arma::mat> needs a dim attribute (Rcpp throws not_a_matrix otherwise)
is_r_matrix(r_value) == r_value.type = "numeric" /\ Len(r_value.dim) = 2

as_arma_mat(r_value) == reshape(r_value.data, r_value.dim[1], r_value.dim[2])

\* ------------------------------------------------------------------------
\* PackedInfo<arma::vec>, PackedInfo<arma::mat>

\* Outcome of an operation that may throw
Done(storage) == [ok |-> TRUE, packed |-> storage, err |-> ""]
Thrown(storage, err) == [ok |-> FALSE, packed |-> storage, err |-> err]

\* PackedInfo constructor: records the offset and the dimensions of the reference
PackedInfo(v, current_offset) ==
    IF v.kind = "vec"
        THEN [kind |-> "vec", offset |-> current_offset, size |-> n_elem(v)]
        ELSE [kind |-> "mat", offset |-> current_offset, rows |-> v.n_rows, cols |-> v.n_cols]

\* Number of storage elements of a group: size for a vec, rows * cols for a mat
InfoSize(info) == IF info.kind = "vec" THEN info.size ELSE info.rows * info.cols

\* Col::subvec(start_row, SizeMat) bounds check of Armadillo
subvec_in_bounds(storage, offset, n) ==
    ~(offset >= Len(storage) \/ offset + n > Len(storage))

\* storage.subvec(offset, size(n, 1)) read as a flat sequence
subvec(storage, offset, n) == [k \in 1 .. n |-> storage[offset + k]]

\* Mutant of subvec_assign: the elements after the span are zeroed
subvec_assign_zeroing(storage, offset, n, flat) ==
    [k \in 1 .. Len(storage) |->
        IF k > offset /\ k <= offset + n THEN flat[k - offset]
        ELSE IF k > offset + n THEN 0 ELSE storage[k]]

\* storage.subvec(offset, size(n, 1)) = flat
subvec_assign(storage, offset, n, flat) ==
    [k \in 1 .. Len(storage) |->
        IF k > offset /\ k <= offset + n THEN flat[k - offset] ELSE storage[k]]

\* storage.subvec(offset, size(n, 1)).fill(x)
subvec_fill(storage, offset, n, x) ==
    [k \in 1 .. Len(storage) |-> IF k > offset /\ k <= offset + n THEN x ELSE storage[k]]

\* unpack: [ok, value, err]
unpack(info, storage) ==
    IF ~subvec_in_bounds(storage, info.offset, InfoSize(info))
        THEN [ok |-> FALSE, value |-> ArmaZeros(0, 0), err |-> "subvec"]
    ELSE IF info.kind = "vec"
        THEN [ok |-> TRUE, err |-> "",
              value |-> reshape(subvec(storage, info.offset, info.size), info.size, 1)]
        ELSE [ok |-> TRUE, err |-> "",
              value |-> reshape(subvec(storage, info.offset, info.rows * info.cols),
                                info.rows, info.cols)]

\* pack: a vec group assigns the expression to the slice (same dimensions required),
\* a mat group assigns its vectorise (same element count required)
pack(info, storage, expr) ==
    IF ~subvec_in_bounds(storage, info.offset, InfoSize(info))
        THEN Thrown(storage, "subvec")
    ELSE IF info.kind = "vec"
        THEN IF expr.n_rows = info.size /\ expr.n_cols = 1
                THEN Done(subvec_assign(storage, info.offset, info.size, vectorise(expr)))
                ELSE Thrown(storage, "incompatible dimensions")
        ELSE IF n_elem(expr) = info.rows * info.cols
                THEN Done(subvec_assign(storage, info.offset, info.rows * info.cols,
                                        vectorise(expr)))
                ELSE Thrown(storage, "incompatible dimensions")

\* Mutant of pack_double_or_arma: a double fills only the first `rows` elements of a
\* mat group
pack_double_or_arma_rows(info, storage, r_value) ==
    IF is_double(r_value)
        THEN IF subvec_in_bounds(storage, info.offset, InfoSize(info))
                THEN Done(subvec_fill(storage, info.offset,
                                      IF info.kind = "vec" THEN info.size ELSE info.rows,
                                      as_double(r_value)))
                ELSE Thrown(storage, "subvec")
    ELSE IF info.kind = "vec"
        THEN pack(info, storage, as_arma_vec(r_value))
        ELSE IF is_r_matrix(r_value)
                THEN pack(info, storage, as_arma_mat(r_value))
                ELSE Thrown(storage, "not a matrix")

\* pack_double_or_arma: a double fills the slice, anything else is converted and packed
pack_double_or_arma(info, storage, r_value) ==
    IF is_double(r_value)
        THEN IF subvec_in_bounds(storage, info.offset, InfoSize(info))
                THEN Done(subvec_fill(storage, info.offset, InfoSize(info), as_double(r_value)))
                ELSE Thrown(storage, "subvec")
    ELSE IF info.kind = "vec"
        THEN pack(info, storage, as_arma_vec(r_value))
        ELSE IF is_r_matrix(r_value)
                THEN pack(info, storage, as_arma_mat(r_value))
                ELSE Thrown(storage, "not a matrix")

\* ------------------------------------------------------------------------
\* Packer, make_packer

\* Mutant of AdvanceOffset: a mat advances the offset by its row count only
AdvanceOffset_rows(info, current_offset) ==
    current_offset + (IF info.kind = "vec" THEN info.size ELSE info.rows)

\* Effect of a PackedInfo constructor on current_offset: current_offset += size
\* (vec), current_offset += rows * cols (mat)
AdvanceOffset(info, current_offset) == current_offset + InfoSize(info)

RECURSIVE PackedInfos(_, _, _)
\* The brace-initialised tuple: one PackedInfo per value, in order, each constructor
\* advancing current_offset
PackedInfos(vals, i, current_offset) ==
    IF i > Len(vals) THEN <<>>
    ELSE LET info == PackedInfo(vals[i], current_offset)
         IN <<info>> \o PackedInfos(vals, i + 1, AdvanceOffset(info, current_offset))

RECURSIVE FinalOffset(_, _, _)
\* Value of current_offset after every constructor has run
FinalOffset(vals, i, current_offset) ==
    IF i > Len(vals) THEN current_offset
    ELSE FinalOffset(vals, i + 1,
                     AdvanceOffset(PackedInfo(vals[i], current_offset), current_offset))

make_packer(vals) ==
    [elements |-> PackedInfos(vals, 1, 0), size |-> FinalOffset(vals, 1, 0)]

\* Packer::unpack<Index>, Packer::pack<Index>, Packer::pack_double_or_arma<Index>
packer_unpack(pk, Index, storage) == unpack(pk.elements[Index], storage)
packer_pack(pk, Index, storage, expr) == pack(pk.elements[Index], storage, expr)
packer_pack_double_or_arma(pk, Index, storage, r_value) ==
    pack_double_or_arma(pk.elements[Index], storage, r_value)

\* ------------------------------------------------------------------------
\* Algorithm naming

\* List of all supported algorithms and associated names
supported_algorithms == <<
    [name |-> "LBFGS_NOCEDAL", enum_value |-> "NLOPT_LD_LBFGS_NOCEDAL"],
    [name |-> "LBFGS", enum_value |-> "NLOPT_LD_LBFGS"],
    [name |-> "VAR1", enum_value |-> "NLOPT_LD_VAR1"],
    [name |-> "VAR2", enum_value |-> "NLOPT_LD_VAR2"],
    [name |-> "TNEWTON", enum_value |-> "NLOPT_LD_TNEWTON"],
    [name |-> "TNEWTON_RESTART", enum_value |-> "NLOPT_LD_TNEWTON_RESTART"],
    [name |-> "TNEWTON_PRECOND", enum_value |-> "NLOPT_LD_TNEWTON_PRECOND"],
    [name |-> "TNEWTON_PRECOND_RESTART", enum_value |-> "NLOPT_LD_TNEWTON_PRECOND_RESTART"],
    [name |-> "MMA", enum_value |-> "NLOPT_LD_MMA"],
    [name |-> "CCSAQ", enum_value |-> "NLOPT_LD_CCSAQ"] >>

RECURSIVE FirstMatch(_, _)
\* The first loop of algorithm_from_name: index of the first association whose name
\* equals `name`, 0 when none does
FirstMatch(name, i) ==
    IF i > Len(supported_algorithms) THEN 0
    ELSE IF name = supported_algorithms[i].name THEN i
    ELSE FirstMatch(name, i + 1)

RECURSIVE SupportedSuffix(_)
\* The second loop of algorithm_from_name: msg += " "; msg += association.name
SupportedSuffix(i) ==
    IF i > Len(supported_algorithms) THEN <<>>
    ELSE <<" ", supported_algorithms[i].name>> \o SupportedSuffix(i + 1)

\* The message of the exception, as the sequence of the pieces appended to msg
UnsupportedMessage(name) ==
    <<"Unsupported algorithm name: \"", name, "\"\nSupported:">> \o SupportedSuffix(1)

\* Mutant of algorithm_from_name: an unknown name falls back to LBFGS
algorithm_from_name_default(name) ==
    IF FirstMatch(name, 1) # 0
        THEN [ok |-> TRUE, enum_value |-> supported_algorithms[FirstMatch(name, 1)].enum_value,
              msg |-> <<>>]
        ELSE [ok |-> TRUE, enum_value |-> "NLOPT_LD_LBFGS", msg |-> <<>>]

\* Retrieve the algorithm enum value associated to 'name', or throw an error
algorithm_from_name(name) ==
    IF FirstMatch(name, 1) # 0
        THEN [ok |-> TRUE, enum_value |-> supported_algorithms[FirstMatch(name, 1)].enum_value,
              msg |-> <<>>]
        ELSE [ok |-> FALSE, enum_value |-> "", msg |-> UnsupportedMessage(name)]

\* ------------------------------------------------------------------------
\* State

VARIABLES
    values,     \* the reference objects given to make_packer, in order
    packer,     \* the Packer built from them (NoPacker before make_packer)
    packed,     \* a packed vector of the packer (packer test sequence)
    hpc,        \* packer test sequence: "make_packer", "alloc", "ready" ("off": not run)
    written,    \* per group: the last pack / pack_double_or_arma that completed
    perr,       \* what the last pack / pack_double_or_arma threw ("": nothing)
    unpacked,   \* results of unpack for every group since the last write (<<>>: none)
    caller,     \* who calls minimize_objective_on_parameters: "none", "direct" or an
                \* entry point cpp_optimize_*
    pc,         \* where the call is
    args,       \* the arguments of the call: [dims, algorithm, xtol_abs]
    mem,        \* memory: the caller's parameters vector and nlopt's raw arrays
    config,     \* the OptimizerConfiguration
    optimizer,  \* the unique_ptr holding the nlopt handle: [state, n]
    log,        \* the nlopt API calls made so far: [fn, ret]
    optim_data, \* OptimData: [nb_iterations]
    cb,         \* the arguments nlopt gave to the objective callback: [valid, n, x, grad]
    nlopt_calls,\* how many times nlopt has invoked the objective callback
    closure_io, \* what the objective closure saw and did on its last evaluation, and
                \* the groups whose gradient it packed
    nlopt_ret,  \* what nlopt_optimize returned: [valid, status, x, objective]
    result,     \* the OptimizerResult returned: [valid, status, objective, nb_iterations]
    error,      \* the message of the exception that ended the call (<<>>: none)
    output,     \* the Rcpp::List returned by the entry point
    point,      \* one observation of a model variant: its data and current parameters
    in_closure, \* S2, Z and A as the objective closure computes them at the point
    in_post_run,\* S2, Z and A as the post-run step computes them at the point
    gradients,  \* per group: the gradient the closure packed at the point and the
                \* central difference of the objective it returned
    calls,      \* two calls of minimize_objective_on_parameters: their frames, the
                \* observation data they read and the frames they started with
    ve_step     \* a VE step on the point: the quadratic penalty of its objective and
                \* the terms of its log-likelihood row

hvars == <<values, packer, packed, hpc, written, perr, unpacked>>
tvars == <<packed, hpc, written, perr, unpacked>>
dvars == <<caller, pc, args, mem, config, optimizer, log, optim_data, cb, nlopt_calls,
           closure_io, nlopt_ret, result, error, output>>
fvars == <<point, in_closure, in_post_run, gradients, calls, ve_step>>
vars == <<values, packer, packed, hpc, written, perr, unpacked, caller, pc, args, mem,
          config, optimizer, log, optim_data, cb, nlopt_calls, closure_io, nlopt_ret,
          result, error, output, point, in_closure, in_post_run>>

NoPacker == [elements |-> <<>>, size |-> 0]
NoExpr == ArmaZeros(0, 0)
NoRValue == RNumeric(<<>>, <<>>)
NotWritten == [op |-> "none", expr |-> NoExpr, r_value |-> NoRValue]
NotUnpacked == <<>>

NoMem == [parameters |-> <<>>, nlopt_x |-> <<>>, nlopt_grad |-> <<>>,
          copy_x |-> <<>>, copy_grad |-> <<>>]
NoArgs == [dims |-> [n |-> 0, p |-> 0, d |-> 0, q |-> 0], algorithm |-> "",
           xtol_abs |-> NoRValue]
NoConfig == [algorithm |-> "", xtol_abs |-> <<>>]
NoOptimizer == [state |-> "unset", n |-> 0]
NoOptimData == [nb_iterations |-> 0]
NoCallback == [valid |-> FALSE, n |-> 0, x |-> "nlopt_x", grad |-> "nlopt_grad"]
NoClosureIO == [valid |-> FALSE, n_parameters |-> 0, n_gradients |-> 0, read |-> <<>>,
                wrote |-> <<>>, packs |-> <<>>]
NoNloptRet == [valid |-> FALSE, status |-> "", x |-> <<>>, objective |-> 0]
NoResult == [valid |-> FALSE, status |-> "", objective |-> 0, nb_iterations |-> 0]
NoOutput == [names |-> <<>>, status |-> "", iterations |-> 0, groups |-> <<>>]

NoPoint == [entry |-> "", O |-> 0, X |-> 0, Theta |-> 0, B |-> 0, M |-> 0, S |-> 0]
NoVEStep == [penalty |-> <<>>, loglik |-> <<>>]
NoCalls == [frames |-> <<>>, observations |-> 0, started |-> <<>>]
NotComputed == [valid |-> FALSE, S2 |-> 0, Z |-> 0, variance |-> 0, log_A |-> 0]

\* No model quantity computed
NothingComputed ==
    /\ point = NoPoint
    /\ in_closure = NotComputed
    /\ in_post_run = NotComputed
    /\ gradients = <<>>
    /\ calls = NoCalls
    /\ ve_step = NoVEStep

\* The driver before any call
DriverIdle ==
    /\ caller = "none"
    /\ pc = "idle"
    /\ args = NoArgs
    /\ mem = NoMem
    /\ config = NoConfig
    /\ optimizer = NoOptimizer
    /\ log = <<>>
    /\ optim_data = NoOptimData
    /\ cb = NoCallback
    /\ nlopt_calls = 0
    /\ closure_io = NoClosureIO
    /\ nlopt_ret = NoNloptRet
    /\ result = NoResult
    /\ error = <<>>
    /\ output = NoOutput

\* ------------------------------------------------------------------------
\* Inputs of the packer operations

\* Reference objects: arma::vec and arma::mat with dimensions in Dims (only their
\* dimensions are read)
RefVec(L) == [kind |-> "vec", n_rows |-> L, n_cols |-> 1, at |-> ArmaZeros(L, 1).at]
RefMat(R, C) == [kind |-> "mat", n_rows |-> R, n_cols |-> C, at |-> ArmaZeros(R, C).at]
RefObjects == {RefVec(L) : L \in Dims} \cup {RefMat(R, C) : R \in Dims, C \in Dims}

RECURSIVE TotalElems(_, _)
TotalElems(vals, i) ==
    IF i > Len(vals) THEN 0 ELSE n_elem(vals[i]) + TotalElems(vals, i + 1)

GroupLists ==
    {vals \in UNION {[1 .. k -> RefObjects] : k \in GroupCounts} :
        TotalElems(vals, 1) <= MaxPacked}

\* Expressions offered to pack for a group of `count` elements: every content for
\* the shapes holding `count` elements, and one expression of each other element
\* count up to MaxPacked
PackExprs(count) ==
    UNION {ArmaOfShape(sh[1], sh[2]) :
             sh \in {x \in (Dims \X Dims) \cup {<<count, 1>>} : x[1] * x[2] = count}}
    \cup {ArmaZeros(L, 1) : L \in (0 .. MaxPacked) \ {count}}

\* R values offered to pack_double_or_arma: a double (numeric of length 1), numeric
\* vectors and numeric matrices of `count` elements with every content, and one
\* numeric vector of each other length up to MaxPacked
RValues(count) ==
    {RNumeric(<<x>>, <<>>) : x \in Values}
    \cup {RNumeric(d, <<>>) : d \in [1 .. count -> Values]}
    \cup UNION {{RNumeric(d, sh) : d \in [1 .. count -> Values]} :
                  sh \in {x \in Dims \X Dims : x[1] * x[2] = count}}
    \cup {RNumeric([k \in 1 .. L |-> 0], <<>>) : L \in (0 .. MaxPacked) \ {count}}

\* ------------------------------------------------------------------------
\* Packer test sequence (cpp_internal_tests, generalised to any group list)

HInit ==
    /\ DriverIdle
    /\ NothingComputed
    /\ values \in GroupLists
    /\ packer = NoPacker
    /\ packed = <<>>
    /\ hpc = "make_packer"
    /\ written = [i \in 1 .. Len(values) |-> NotWritten]
    /\ perr = ""
    /\ unpacked = NotUnpacked

\* const auto packer = make_packer(z, a, b, b);
HMakePacker ==
    /\ UNCHANGED fvars
    /\ hpc = "make_packer"
    /\ packer' = make_packer(values)
    /\ hpc' = "alloc"
    /\ UNCHANGED <<values, packed, written, perr, unpacked>>
    /\ UNCHANGED dvars

\* auto packed = arma::vec(packer.size);  (elements not initialised)
HAlloc ==
    /\ UNCHANGED fvars
    /\ hpc = "alloc"
    /\ packed' \in [1 .. packer.size -> Values]
    /\ hpc' = "ready"
    /\ UNCHANGED <<values, packer, written, perr, unpacked>>
    /\ UNCHANGED dvars

\* packer.pack<Index>(packed, expr);
HPack ==
    /\ UNCHANGED fvars
    /\ hpc = "ready"
    /\ \E Index \in 1 .. Len(values) :
       \E expr \in PackExprs(InfoSize(packer.elements[Index])) :
          LET r == packer_pack(packer, Index, packed, expr)
          IN /\ packed' = r.packed
             /\ perr' = r.err
             /\ written' = IF r.ok
                              THEN [written EXCEPT ![Index] =
                                       [op |-> "pack", expr |-> expr, r_value |-> NoRValue]]
                              ELSE written
    /\ unpacked' = NotUnpacked
    /\ UNCHANGED <<values, packer, hpc>>
    /\ UNCHANGED dvars

\* packer.pack_double_or_arma<Index>(packed, r_value);
HPackDoubleOrArma ==
    /\ UNCHANGED fvars
    /\ hpc = "ready"
    /\ \E Index \in 1 .. Len(values) :
       \E r_value \in RValues(InfoSize(packer.elements[Index])) :
          LET r == packer_pack_double_or_arma(packer, Index, packed, r_value)
          IN /\ packed' = r.packed
             /\ perr' = r.err
             /\ written' = IF r.ok
                              THEN [written EXCEPT ![Index] =
                                       [op |-> "pack_double_or_arma", expr |-> NoExpr,
                                        r_value |-> r_value]]
                              ELSE written
    /\ unpacked' = NotUnpacked
    /\ UNCHANGED <<values, packer, hpc>>
    /\ UNCHANGED dvars

\* packer.unpack<Index>(packed) for every Index, as the tests do after packing
HUnpack ==
    /\ UNCHANGED fvars
    /\ hpc = "ready"
    /\ unpacked' = [Index \in 1 .. Len(values) |-> packer_unpack(packer, Index, packed)]
    /\ UNCHANGED <<values, packer, packed, hpc, written, perr>>
    /\ UNCHANGED dvars

HNext == HMakePacker \/ HAlloc \/ HPack \/ HPackDoubleOrArma \/ HUnpack

SpecPacker == HInit /\ [][HNext]_vars

\* ------------------------------------------------------------------------
\* The entry points cpp_optimize_*: parameter groups and returned names

\* Bounds of the calls of minimize_objective_on_parameters
\* Largest parameter vector of a direct call
MaxN == 2
\* Largest number of objective evaluations nlopt makes in one run
MaxEvals == 2

EntryPoints == {"cpp_optimize_full", "cpp_optimize_spherical", "cpp_optimize_diagonal",
                "cpp_optimize_rank", "cpp_optimize_sparse", "cpp_optimize_vestep_full",
                "cpp_optimize_vestep_diagonal", "cpp_optimize_vestep_spherical"}

\* Problem dimensions of the entry point calls: n observations, p responses,
\* d covariates, q ranks
EntryDims ==
    {[n |-> 1, p |-> 1, d |-> d, q |-> 1] : d \in {0, 1}}
    \cup {[n |-> 1, p |-> 2, d |-> 1, q |-> 1]}

Group(name, kind, n_rows, n_cols) ==
    [name |-> name, kind |-> kind, n_rows |-> n_rows, n_cols |-> n_cols]

\* The init_parameters converted by each entry point and given to make_packer, in
\* order, with the dimensions the entry point documents
PackedGroups(entry, dims) ==
    CASE entry \in {"cpp_optimize_full", "cpp_optimize_diagonal", "cpp_optimize_sparse"} ->
            <<Group("Theta", "mat", dims.p, dims.d), Group("M", "mat", dims.n, dims.p),
              Group("S", "mat", dims.n, dims.p)>>
      [] entry = "cpp_optimize_spherical" ->
            <<Group("Theta", "mat", dims.p, dims.d), Group("M", "mat", dims.n, dims.p),
              Group("S", "vec", dims.n, 1)>>
      [] entry = "cpp_optimize_rank" ->
            <<Group("Theta", "mat", dims.p, dims.d), Group("B", "mat", dims.p, dims.q),
              Group("M", "mat", dims.n, dims.q), Group("S", "mat", dims.n, dims.q)>>
      [] entry \in {"cpp_optimize_vestep_full", "cpp_optimize_vestep_diagonal"} ->
            <<Group("M", "mat", dims.n, dims.p), Group("S", "mat", dims.n, dims.p)>>
      [] entry = "cpp_optimize_vestep_spherical" ->
            <<Group("M", "mat", dims.n, dims.p), Group("S", "vec", dims.n, 1)>>

\* Mutant of OutputNames: the VE steps return Z and A as well
OutputNames_all(entry) ==
    CASE entry \in {"cpp_optimize_full", "cpp_optimize_spherical", "cpp_optimize_diagonal"} ->
            <<"status", "iterations", "Theta", "M", "S", "Z", "A", "Sigma", "Omega", "loglik">>
      [] entry = "cpp_optimize_rank" ->
            <<"status", "iterations", "Theta", "B", "M", "S", "Z", "A", "Sigma", "loglik">>
      [] entry = "cpp_optimize_sparse" ->
            <<"status", "iterations", "Theta", "M", "S", "Z", "A", "Sigma", "loglik">>
      [] OTHER -> <<"status", "iterations", "M", "S", "Z", "A", "loglik">>

\* Names of the list each entry point returns
OutputNames(entry) ==
    CASE entry \in {"cpp_optimize_full", "cpp_optimize_spherical", "cpp_optimize_diagonal"} ->
            <<"status", "iterations", "Theta", "M", "S", "Z", "A", "Sigma", "Omega", "loglik">>
      [] entry = "cpp_optimize_rank" ->
            <<"status", "iterations", "Theta", "B", "M", "S", "Z", "A", "Sigma", "loglik">>
      [] entry = "cpp_optimize_sparse" ->
            <<"status", "iterations", "Theta", "M", "S", "Z", "A", "Sigma", "loglik">>
      [] OTHER -> <<"status", "iterations", "M", "S", "loglik">>

\* An R list with named elements, and an R value that is neither numeric nor a list
RList(names, elems) == [type |-> "list", names |-> names, elems |-> elems]
RCharacter == [type |-> "character"]

\* list[name]
list_get(list, name) ==
    list.elems[CHOOSE i \in 1 .. Len(list.names) : list.names[i] = name]

\* Rcpp::as<arma::mat> / Rcpp::as<arma::vec> of init_parameters[name]
AsGroupObject(group, r_value) ==
    IF group.kind = "vec"
        THEN [kind |-> "vec"] @@ as_arma_vec(r_value)
        ELSE [kind |-> "mat"] @@ as_arma_mat(r_value)

\* init_parameters lists of an entry point: every group has the documented
\* dimensions, and all elements are the same double
InitLists(groups) ==
    {RList([i \in 1 .. Len(groups) |-> groups[i].name],
           [i \in 1 .. Len(groups) |->
               RNumeric([k \in 1 .. groups[i].n_rows * groups[i].n_cols |-> x],
                        IF groups[i].kind = "vec" THEN <<>>
                        ELSE <<groups[i].n_rows, groups[i].n_cols>>)]) : x \in Values}

\* A by-parameter xtol_abs list: for group i a numeric of count[i] elements, all
\* i % 2, with the dim attribute dim[i]
XtolAbsList(groups, count, dim) ==
    RList([i \in 1 .. Len(groups) |-> groups[i].name],
          [i \in 1 .. Len(groups) |-> RNumeric([k \in 1 .. count[i] |-> i % 2], dim[i])])

\* A by-parameter list giving every group the same double x
XtolAbsSameScalar(groups, x) ==
    RList([i \in 1 .. Len(groups) |-> groups[i].name],
          [i \in 1 .. Len(groups) |-> RNumeric(<<x>>, <<>>)])

\* init_parameters lists whose dimensions do not match the observation data: M has
\* one row more than Y, or (when Theta is a parameter) Theta one column more than X;
\* all elements are 0
MismatchedInitLists(groups) ==
    {RList([i \in 1 .. Len(groups) |-> groups[i].name],
           [i \in 1 .. Len(groups) |->
               LET rows == groups[i].n_rows + (IF groups[i].name = "M" /\ extra = "M"
                                                 THEN 1 ELSE 0)
                   cols == groups[i].n_cols + (IF groups[i].name = "Theta" /\ extra = "Theta"
                                                 THEN 1 ELSE 0)
               IN RNumeric([k \in 1 .. rows * cols |-> 0],
                           IF groups[i].kind = "vec" THEN <<>> ELSE <<rows, cols>>)]) :
       extra \in {"M", "Theta"} \cap {groups[i].name : i \in 1 .. Len(groups)}}

\* configuration["xtol_abs"] values: a double, a list giving every group that same
\* double, a list giving every group a double,
\* a list giving every group a value of its dimensions, lists giving every matrix
\* group a matrix of the transposed dimensions, a vector without dim attribute or a
\* matrix with one row too many, and a character vector
XtolAbsInputs(groups) ==
    LET I == 1 .. Len(groups)
        full == [i \in I |-> groups[i].n_rows * groups[i].n_cols]
    IN {RNumeric(<<1>>, <<>>),
        XtolAbsSameScalar(groups, 1),
        XtolAbsList(groups, [i \in I |-> 1], [i \in I |-> <<>>]),
        XtolAbsList(groups, full,
                    [i \in I |-> IF groups[i].kind = "vec" THEN <<>>
                                 ELSE <<groups[i].n_rows, groups[i].n_cols>>]),
        XtolAbsList(groups, full,
                    [i \in I |-> IF groups[i].kind = "vec" THEN <<>>
                                 ELSE <<groups[i].n_cols, groups[i].n_rows>>]),
        XtolAbsList(groups, full, [i \in I |-> <<>>]),
        XtolAbsList(groups, [i \in I |-> (groups[i].n_rows + 1) * groups[i].n_cols],
                    [i \in I |-> IF groups[i].kind = "vec" THEN <<>>
                                 ELSE <<groups[i].n_rows + 1, groups[i].n_cols>>]),
        RCharacter}

\* Algorithm names requested: the supported ones and some that are not
SupportedNames == {supported_algorithms[i].name : i \in 1 .. Len(supported_algorithms)}
UnsupportedNames == {"", "lbfgs", "LBFGS ", "LD_LBFGS", "NELDERMEAD"}

\* ------------------------------------------------------------------------
\* nlopt, as the wrapper sees it

\* nlopt_result
NloptResults == {"NLOPT_FAILURE", "NLOPT_INVALID_ARGS", "NLOPT_OUT_OF_MEMORY",
                 "NLOPT_ROUNDOFF_LIMITED", "NLOPT_FORCED_STOP", "NLOPT_SUCCESS",
                 "NLOPT_STOPVAL_REACHED", "NLOPT_FTOL_REACHED", "NLOPT_XTOL_REACHED",
                 "NLOPT_MAXEVAL_REACHED", "NLOPT_MAXTIME_REACHED"}

\* What a setter or nlopt_set_min_objective may report
SetterResults == {"NLOPT_SUCCESS", "NLOPT_INVALID_ARGS", "NLOPT_OUT_OF_MEMORY"}

\* static_cast<int>(result.status)
nlopt_result_to_int(status) ==
    CASE status = "NLOPT_FAILURE" -> -1
      [] status = "NLOPT_INVALID_ARGS" -> -2
      [] status = "NLOPT_OUT_OF_MEMORY" -> -3
      [] status = "NLOPT_ROUNDOFF_LIMITED" -> -4
      [] status = "NLOPT_FORCED_STOP" -> -5
      [] status = "NLOPT_SUCCESS" -> 1
      [] status = "NLOPT_STOPVAL_REACHED" -> 2
      [] status = "NLOPT_FTOL_REACHED" -> 3
      [] status = "NLOPT_XTOL_REACHED" -> 4
      [] status = "NLOPT_MAXEVAL_REACHED" -> 5
      [] status = "NLOPT_MAXTIME_REACHED" -> 6

\* The vectors of doubles of length n, and those whose elements are all the same
Vectors(n) == [1 .. n -> Values]
ConstantVectors(n) == {[k \in 1 .. n |-> x] : x \in Values}

\* The points nlopt tries and returns and the gradients the closures compute: every
\* vector up to length MaxN, the constant ones beyond
TrialVectors(n) == IF n <= MaxN THEN Vectors(n) ELSE ConstantVectors(n)

\* One record of the log of nlopt API calls
Call(fn, ret) == [fn |-> fn, ret |-> ret]

\* The setters of lines 157-162, in program order, each named by its `reason`
SetterOrder == <<"nlopt_set_xtol_abs", "nlopt_set_xtol_rel", "nlopt_set_ftol_abs",
                 "nlopt_set_ftol_rel", "nlopt_set_maxeval", "nlopt_set_maxtime">>

\* ------------------------------------------------------------------------
\* minimize_objective_on_parameters: the pieces

\* Mutant of SizesMatch: the size check is always satisfied
SizesMatch_always(xtol_abs, parameters) == TRUE

\* config.xtol_abs.n_elem == parameters.n_elem
SizesMatch(xtol_abs, parameters) == Len(xtol_abs) = Len(parameters)

\* Mutant of unique_ptr_destructor: the deleter is never called
unique_ptr_destructor_leak(opt, lg) == lg

\* ~unique_ptr<Optimizer, Deleter>: the Deleter calls nlopt_destroy when the pointer
\* is not null
unique_ptr_destructor(opt, lg) ==
    IF opt.state = "live" THEN Append(lg, Call("nlopt_destroy", "void")) ELSE lg

\* The unique_ptr after its destructor
Destroyed(opt) == IF opt.state = "live" THEN [opt EXCEPT !.state = "destroyed"] ELSE opt

\* Mutant of check: the result code is ignored
check_ignored(r, reason) == [ok |-> TRUE, err |-> <<>>]

\* The lambda check(r, reason): throws Rcpp::exception(reason) unless r is NLOPT_SUCCESS
check(r, reason) ==
    IF r # "NLOPT_SUCCESS" THEN [ok |-> FALSE, err |-> <<reason>>]
    ELSE [ok |-> TRUE, err |-> <<>>]

\* Mutant of ArmaVecAux: the vector copies the auxiliary memory into its own
ArmaVecAux_copy(ptr, n, copy_aux_mem, own) == [mem |-> own, n_elem |-> n]

\* arma::vec(ptr, n, copy_aux_mem, strict): the memory the vector uses and its length;
\* `own` names the memory the vector would allocate for a copy
ArmaVecAux(ptr, n, copy_aux_mem, own) ==
    [mem |-> IF copy_aux_mem THEN own ELSE ptr, n_elem |-> n]

\* Memory when the two vectors of optim_fn are constructed: a vector that owns its
\* memory starts as a copy of the n elements at ptr
WithViews(m, xview, xptr, gview, gptr) ==
    [m EXCEPT !.copy_x = IF xview.mem = "copy_x"
                            THEN [k \in 1 .. xview.n_elem |-> m[xptr][k]] ELSE <<>>,
              !.copy_grad = IF gview.mem = "copy_grad"
                               THEN [k \in 1 .. gview.n_elem |-> m[gptr][k]] ELSE <<>>]

\* Mutant of IncrementIterations: the counter is left alone
IncrementIterations_none(data) == data

\* optim_data.nb_iterations += 1
IncrementIterations(data) == [data EXCEPT !.nb_iterations = data.nb_iterations + 1]

\* Mutant of OptimizerResult: a negative status is reported as NLOPT_FAILURE
OptimizerResult_failure(status, objective, nb_iterations) ==
    [valid |-> TRUE,
     status |-> IF nlopt_result_to_int(status) < 0 THEN "NLOPT_FAILURE" ELSE status,
     objective |-> objective, nb_iterations |-> nb_iterations]

\* OptimizerResult{status, objective, optim_data.nb_iterations}
OptimizerResult(status, objective, nb_iterations) ==
    [valid |-> TRUE, status |-> status, objective |-> objective,
     nb_iterations |-> nb_iterations]

\* ------------------------------------------------------------------------
\* Dimensions of Armadillo expressions.  Armadillo checks the dimensions of the
\* operands when an expression is evaluated and throws std::logic_error when they do
\* not conform; NonConformant stands for an expression whose evaluation throws.

Sh(r, c) == [n_rows |-> r, n_cols |-> c]
NonConformant == [n_rows |-> -1, n_cols |-> -1]
Conforms(a) == a # NonConformant
DimsOf(a) == IF Conforms(a) THEN Sh(a.n_rows, a.n_cols) ELSE NonConformant

\* a + b, a - b, a % b, a / b: same dimensions required
Elementwise(a, b) ==
    IF Conforms(a) /\ Conforms(b) /\ a.n_rows = b.n_rows /\ a.n_cols = b.n_cols
        THEN DimsOf(a) ELSE NonConformant

\* a * b: a.n_cols = b.n_rows required
Times(a, b) ==
    IF Conforms(a) /\ Conforms(b) /\ a.n_cols = b.n_rows
        THEN Sh(a.n_rows, b.n_cols) ELSE NonConformant

\* a.t()
Trans(a) == IF Conforms(a) THEN Sh(a.n_cols, a.n_rows) ELSE NonConformant

\* a.each_col() % v, a.each_col() + v: v must be a column vector of a.n_rows elements
EachCol(a, v) ==
    IF Conforms(a) /\ Conforms(v) /\ v.n_rows = a.n_rows /\ v.n_cols = 1
        THEN DimsOf(a) ELSE NonConformant

\* a.each_row() % v: v must be a row vector of a.n_cols elements
EachRow(a, v) ==
    IF Conforms(a) /\ Conforms(v) /\ v.n_rows = 1 /\ v.n_cols = a.n_cols
        THEN DimsOf(a) ELSE NonConformant

\* diagmat(a): a vector gives a square matrix, a matrix keeps its dimensions
Diagmat(a) ==
    IF ~Conforms(a) THEN NonConformant
    ELSE IF a.n_rows = 1 \/ a.n_cols = 1
        THEN Sh(a.n_rows * a.n_cols, a.n_rows * a.n_cols)
        ELSE DimsOf(a)

\* diagvec(a): the main diagonal as a column vector
Diagvec(a) ==
    IF ~Conforms(a) THEN NonConformant
    ELSE Sh(IF a.n_rows < a.n_cols THEN a.n_rows ELSE a.n_cols, 1)

\* sum(a, 1): one sum per row; sum(a, 0): one sum per column
SumRows(a) == IF Conforms(a) THEN Sh(a.n_rows, 1) ELSE NonConformant
SumCols(a) == IF Conforms(a) THEN Sh(1, a.n_cols) ELSE NonConformant

\* inv_sympd(a): a square matrix required
Square(a) ==
    IF Conforms(a) /\ a.n_rows = a.n_cols THEN DimsOf(a) ELSE NonConformant

\* A scalar computed from two expressions, accu(a) + accu(b): each is evaluated
Scalars(a, b) == IF Conforms(a) /\ Conforms(b) THEN Sh(1, 1) ELSE NonConformant

\* dot(a, b): same number of elements required (the result is a scalar)
Dot(a, b) ==
    IF Conforms(a) /\ Conforms(b) /\ a.n_rows * a.n_cols = b.n_rows * b.n_cols
        THEN Sh(1, 1) ELSE NonConformant

\* The observation data of a call, by their documented dimensions
DataY(dims) == Sh(dims.n, dims.p)
DataX(dims) == Sh(dims.n, dims.d)
DataO(dims) == Sh(dims.n, dims.p)
DataW(dims) == Sh(dims.n, 1)
\* The fixed precision matrix (p,p) of cpp_optimize_sparse and of the VE steps, and
\* the fixed regression matrix Theta (p,d) of the VE steps
DataOmega(dims) == Sh(dims.p, dims.p)
DataTheta(dims) == Sh(dims.p, dims.d)

\* One statement of a closure: an expression is evaluated (pack = 0) or evaluated
\* and packed as the gradient of group `pack`
Eval(a) == [pack |-> 0, dims |-> a]
PackGrad(Index, a) == [pack |-> Index, dims |-> a]

\* objective_and_grad of cpp_optimize_full, lines 331-347
closure_full(dims, Theta, M, S) ==
    LET Y == DataY(dims)
        X == DataX(dims)
        O == DataO(dims)
        w == DataW(dims)
        S2 == Elementwise(S, S)
        Z == Elementwise(Elementwise(O, Times(X, Trans(Theta))), M)
        A == Elementwise(Z, S2)
        Omega == Square(Elementwise(Times(Trans(M), EachCol(M, w)),
                                    Diagmat(Times(Trans(w), S2))))
        objective == Times(Trans(w), Elementwise(Elementwise(A, Elementwise(Y, Z)), S2))
    IN <<Eval(S2), Eval(Z), Eval(A), Eval(Omega), Eval(objective),
         PackGrad(1, Times(Trans(Elementwise(A, Y)), EachCol(X, w))),
         PackGrad(2, Times(Diagmat(w),
                           Elementwise(Elementwise(Times(M, Omega), A), Y))),
         PackGrad(3, Times(Diagmat(w),
                           Elementwise(Elementwise(EachRow(S, Trans(Diagvec(Omega))),
                                                   Elementwise(S, A)), S)))>>

\* objective_and_grad of cpp_optimize_spherical, lines 413-431
closure_spherical(dims, Theta, M, S) ==
    LET Y == DataY(dims)
        X == DataX(dims)
        O == DataO(dims)
        w == DataW(dims)
        S2 == Elementwise(S, S)
        Z == Elementwise(Elementwise(O, Times(X, Trans(Theta))), M)
        A == EachCol(Z, S2)
        sigma2 == Scalars(Elementwise(M, EachCol(M, w)), Elementwise(w, S2))
        objective == Scalars(Times(Diagmat(w), Elementwise(A, Elementwise(Y, Z))),
                             Elementwise(w, S2))
    IN <<Eval(S2), Eval(Z), Eval(A), Eval(sigma2), Eval(objective),
         PackGrad(1, Times(Trans(Elementwise(A, Y)), EachCol(X, w))),
         PackGrad(2, Times(Diagmat(w), Elementwise(Elementwise(M, A), Y))),
         PackGrad(3, Elementwise(w, Elementwise(Elementwise(S, SumRows(A)), S)))>>

\* objective_and_grad of cpp_optimize_diagonal, lines 500-516
closure_diagonal(dims, Theta, M, S) ==
    LET Y == DataY(dims)
        X == DataX(dims)
        O == DataO(dims)
        w == DataW(dims)
        S2 == Elementwise(S, S)
        Z == Elementwise(Elementwise(O, Times(X, Trans(Theta))), M)
        A == Elementwise(Z, S2)
        diag_sigma == SumCols(Elementwise(Elementwise(M, EachCol(M, w)), EachCol(S2, w)))
        objective == Times(Diagmat(w), Elementwise(Elementwise(A, Elementwise(Y, Z)), S2))
    IN <<Eval(S2), Eval(Z), Eval(A), Eval(diag_sigma), Eval(objective),
         PackGrad(1, Times(Trans(Elementwise(A, Y)), EachCol(X, w))),
         PackGrad(2, Times(Diagmat(w),
                           Elementwise(Elementwise(EachRow(M, diag_sigma), A), Y))),
         PackGrad(3, Times(Diagmat(w),
                           Elementwise(Elementwise(EachRow(S, diag_sigma),
                                                   Elementwise(S, A)), S)))>>

\* objective_and_grad of cpp_optimize_rank, lines 587-604
closure_rank(dims, Theta, B, M, S) ==
    LET Y == DataY(dims)
        X == DataX(dims)
        O == DataO(dims)
        w == DataW(dims)
        S2 == Elementwise(S, S)
        Z == Elementwise(Elementwise(O, Times(X, Trans(Theta))), Times(M, Trans(B)))
        A == Elementwise(Z, Times(S2, Trans(Elementwise(B, B))))
        objective == Scalars(Times(Diagmat(w), Elementwise(A, Elementwise(Y, Z))),
                         Times(Diagmat(w), Elementwise(Elementwise(M, M), S2)))
    IN <<Eval(S2), Eval(Z), Eval(A), Eval(objective),
         PackGrad(1, Times(Trans(Elementwise(A, Y)), EachCol(X, w))),
         PackGrad(2, Elementwise(Times(Trans(Times(Diagmat(w), Elementwise(A, Y))), M),
                                 Elementwise(Times(Trans(A), EachCol(S2, w)), B))),
         PackGrad(3, Times(Diagmat(w), Elementwise(Times(Elementwise(A, Y), B), M))),
         PackGrad(4, Times(Diagmat(w),
                           Elementwise(S, Elementwise(Times(A, Elementwise(B, B)), S))))>>

\* objective_and_grad of cpp_optimize_sparse, lines 666-682
closure_sparse(dims, Theta, M, S) ==
    LET Y == DataY(dims)
        X == DataX(dims)
        O == DataO(dims)
        w == DataW(dims)
        Omega == DataOmega(dims)
        S2 == Elementwise(S, S)
        Z == Elementwise(Elementwise(O, Times(X, Trans(Theta))), M)
        A == Elementwise(Z, S)
        nSigma == Elementwise(Times(Trans(M), EachCol(M, w)), Diagmat(Times(Trans(w), S2)))
        objective == Scalars(Times(Trans(w), Elementwise(Elementwise(A, Elementwise(Y, Z)), S2)),
                         Times(Omega, nSigma))
    IN <<Eval(S2), Eval(Z), Eval(A), Eval(nSigma), Eval(objective),
         PackGrad(1, Times(Trans(Elementwise(A, Y)), EachCol(X, w))),
         PackGrad(2, Times(Diagmat(w),
                           Elementwise(Elementwise(Times(M, Omega), A), Y))),
         PackGrad(3, Times(Diagmat(w),
                           Elementwise(Elementwise(EachRow(S, Trans(Diagvec(Omega))),
                                                   Elementwise(S, A)), S)))>>

\* objective_and_grad of cpp_optimize_vestep_full, lines 741-755
closure_vestep_full(dims, M, S) ==
    LET Y == DataY(dims)
        X == DataX(dims)
        O == DataO(dims)
        w == DataW(dims)
        Theta == DataTheta(dims)
        Omega == DataOmega(dims)
        S2 == Elementwise(S, S)
        Z == Elementwise(Elementwise(O, Times(X, Trans(Theta))), M)
        A == Elementwise(Z, S2)
        nSigma == Elementwise(Times(Times(Trans(M), Diagmat(w)), M),
                              Diagmat(SumCols(EachCol(S2, w))))
        objective == Scalars(Times(Trans(w), Elementwise(Elementwise(A, Elementwise(Y, Z)), S2)),
                         Times(Omega, nSigma))
    IN <<Eval(S2), Eval(Z), Eval(A), Eval(nSigma), Eval(objective),
         PackGrad(1, Times(Diagmat(w),
                           Elementwise(Elementwise(Times(M, Omega), A), Y))),
         PackGrad(2, Times(Diagmat(w),
                           Elementwise(Elementwise(EachRow(S, Trans(Diagvec(Omega))),
                                                   Elementwise(S, A)), S)))>>

\* objective_and_grad of cpp_optimize_vestep_diagonal, lines 805-820.  omega2 is an
\* arma::vec, a column, and is given to S.each_row() as it is.
closure_vestep_diagonal(dims, M, S) ==
    LET Y == DataY(dims)
        X == DataX(dims)
        O == DataO(dims)
        w == DataW(dims)
        Theta == DataTheta(dims)
        Omega == DataOmega(dims)
        S2 == Elementwise(S, S)
        Z == Elementwise(Elementwise(O, Times(X, Trans(Theta))), M)
        A == Elementwise(Z, S)
        omega2 == Diagvec(Omega)
        objective == Scalars(Times(Trans(w), Elementwise(Elementwise(A, Elementwise(Y, Z)), S2)),
                         Times(Times(Trans(w), Elementwise(M, S2)), omega2))
    IN <<Eval(S2), Eval(Z), Eval(A), Eval(omega2), Eval(objective),
         PackGrad(1, Times(Diagmat(w),
                           Elementwise(Elementwise(Times(M, Omega), A), Y))),
         PackGrad(2, Times(Diagmat(w),
                           Elementwise(Elementwise(EachRow(S, omega2),
                                                   Elementwise(S, A)), S)))>>

\* objective_and_grad of cpp_optimize_vestep_spherical, lines 871-887
closure_vestep_spherical(dims, M, S) ==
    LET Y == DataY(dims)
        X == DataX(dims)
        O == DataO(dims)
        w == DataW(dims)
        Theta == DataTheta(dims)
        S2 == Elementwise(S, S)
        Z == Elementwise(Elementwise(O, Times(X, Trans(Theta))), M)
        A == EachCol(Z, S2)
        n_sigma2 == Dot(w, Elementwise(SumRows(M), S))
        objective == Scalars(Times(Trans(w), Elementwise(A, Elementwise(Y, Z))), Dot(w, S2))
    IN <<Eval(S2), Eval(Z), Eval(A), Eval(n_sigma2), Eval(objective),
         PackGrad(1, Times(Diagmat(w), Elementwise(Elementwise(M, A), Y))),
         PackGrad(2, Elementwise(w, Elementwise(Elementwise(S, SumRows(A)), S)))>>

\* The statements of the closure of an entry point, with the unpacked groups
closure_statements(entry, dims, groups) ==
    CASE entry = "cpp_optimize_full" -> closure_full(dims, groups[1], groups[2], groups[3])
      [] entry = "cpp_optimize_spherical" ->
            closure_spherical(dims, groups[1], groups[2], groups[3])
      [] entry = "cpp_optimize_diagonal" ->
            closure_diagonal(dims, groups[1], groups[2], groups[3])
      [] entry = "cpp_optimize_rank" ->
            closure_rank(dims, groups[1], groups[2], groups[3], groups[4])
      [] entry = "cpp_optimize_sparse" ->
            closure_sparse(dims, groups[1], groups[2], groups[3])
      [] entry = "cpp_optimize_vestep_full" -> closure_vestep_full(dims, groups[1], groups[2])
      [] entry = "cpp_optimize_vestep_diagonal" ->
            closure_vestep_diagonal(dims, groups[1], groups[2])
      [] entry = "cpp_optimize_vestep_spherical" ->
            closure_vestep_spherical(dims, groups[1], groups[2])

\* ------------------------------------------------------------------------
\* The closures of the entry points and what surrounds them

RECURSIVE PackAll(_, _, _, _)
\* packer.pack<0>(storage, exprs[0]); packer.pack<1>(storage, exprs[1]); ... : stops at
\* the first that throws
PackAll(pk, exprs, storage, i) ==
    IF i > Len(exprs) THEN Done(storage)
    ELSE LET r == packer_pack(pk, i, storage, exprs[i])
         IN IF r.ok THEN PackAll(pk, exprs, r.packed, i + 1) ELSE r

\* Mutant of pack_xtol_abs: only the entry of the first group is packed
pack_xtol_abs_first(pk, groups, storage, list, i) ==
    packer_pack_double_or_arma(pk, 1, storage, list_get(list, groups[1].name))

RECURSIVE pack_xtol_abs(_, _, _, _, _)
\* The lambda pack_xtol_abs of each entry point: pack_double_or_arma<i>(packed,
\* list[name of group i]) for every group in order
pack_xtol_abs(pk, groups, storage, list, i) ==
    IF i > Len(groups) THEN Done(storage)
    ELSE LET r == packer_pack_double_or_arma(pk, i, storage, list_get(list, groups[i].name))
         IN IF r.ok THEN pack_xtol_abs(pk, groups, r.packed, list, i + 1) ELSE r

\* packer.unpack<i>(storage) for every group: [ok, values, err]
UnpackAll(pk, storage) ==
    LET rs == [i \in 1 .. Len(pk.elements) |-> packer_unpack(pk, i, storage)]
    IN IF \A i \in 1 .. Len(rs) : rs[i].ok
          THEN [ok |-> TRUE, values |-> [i \in 1 .. Len(rs) |-> rs[i].value], err |-> ""]
          ELSE [ok |-> FALSE, values |-> <<>>,
                err |-> rs[CHOOSE i \in 1 .. Len(rs) :
                              ~rs[i].ok /\ \A j \in 1 .. i - 1 : rs[j].ok].err]

\* The value a closure packs as the gradient of group Index: an expression of the
\* dimensions `dims`, holding the part of `computed` that lies in the slice of the group
\* when it has as many elements as the group
GradientExpr(pk, Index, dims, computed) ==
    LET slice == packer_unpack(pk, Index, computed).value
    IN IF n_elem(dims) = n_elem(slice)
          THEN reshape(vectorise(slice), dims.n_rows, dims.n_cols)
          ELSE ArmaZeros(dims.n_rows, dims.n_cols)

RECURSIVE RunStatements(_, _, _, _, _, _)
\* The statements of a closure from the i-th on: the first expression whose operands
\* do not conform, or the first pack that fails, throws; `packs` lists the groups whose
\* gradient has been packed, in order
RunStatements(pk, stmts, computed, g, i, packs) ==
    IF i > Len(stmts) THEN Done(g) @@ [packs |-> packs]
    ELSE IF ~Conforms(stmts[i].dims)
        THEN Thrown(g, "incompatible dimensions") @@ [packs |-> packs]
    ELSE IF stmts[i].pack = 0
        THEN RunStatements(pk, stmts, computed, g, i + 1, packs)
    ELSE LET r == packer_pack(pk, stmts[i].pack, g,
                              GradientExpr(pk, stmts[i].pack, stmts[i].dims, computed))
         IN IF r.ok
               THEN RunStatements(pk, stmts, computed, r.packed, i + 1,
                                  Append(packs, stmts[i].pack))
               ELSE r @@ [packs |-> packs]

\* What the objective closure does with the parameter vector x and the gradient
\* storage g when its computation gives the gradient `computed`.  The closure of a
\* direct call writes every element; the closure of an entry point unpacks every
\* group of x, evaluates its statements and packs the gradient of the groups into g.
ClosureRun(who, dims, pk, x, g, computed) ==
    IF who = "direct"
        THEN Done([k \in 1 .. Len(g) |-> computed[k]]) @@ [packs |-> <<>>]
    ELSE LET u == UnpackAll(pk, x)
         IN IF ~u.ok THEN Thrown(g, u.err) @@ [packs |-> <<>>]
            ELSE RunStatements(pk, closure_statements(who, dims, u.values), computed, g,
                               1, <<>>)

\* The post-run step of an entry point evaluates S2, Z and A from the unpacked groups
\* with the operands of the closure: it throws when their dimensions do not conform
PostRunConforms(entry, dims, groups) ==
    \A i \in 1 .. 3 : Conforms(closure_statements(entry, dims, groups)[i].dims)

\* ------------------------------------------------------------------------
\* Calls of minimize_objective_on_parameters

Init ==
    /\ DriverIdle
    /\ NothingComputed
    /\ values = <<>>
    /\ packer = NoPacker
    /\ packed = <<>>
    /\ hpc = "off"
    /\ written = <<>>
    /\ perr = ""
    /\ unpacked = NotUnpacked

\* Length of the parameter vector
NParameters == Len(mem.parameters)

\* An exception leaves the current function: pc, message
Throw(msg) ==
    /\ pc' = "thrown"
    /\ error' = msg

\* The nlopt wrapper test of cpp_internal_tests, for any parameter vector of up to
\* MaxN elements, any xtol_abs length and any algorithm name
CallDirect ==
    /\ UNCHANGED fvars
    /\ pc = "idle"
    /\ \E n \in 0 .. MaxN, m \in 0 .. MaxN, name \in SupportedNames \cup UnsupportedNames :
       \E x \in Vectors(n) :
          /\ args' = [dims |-> [n |-> n, p |-> 0, d |-> 0, q |-> 0], algorithm |-> name,
                      xtol_abs |-> RNumeric([k \in 1 .. m |-> 0], <<>>)]
          /\ mem' = [mem EXCEPT !.parameters = x]
    /\ caller' = "direct"
    /\ pc' = "direct_config"
    /\ UNCHANGED <<values, packer, tvars, config, optimizer, log, optim_data, cb,
                   nlopt_calls, closure_io, nlopt_ret, result, error, output>>

\* auto config = OptimizerConfiguration{algorithm_from_name(...), arma::vec{...}, ...};
DirectConfig ==
    /\ UNCHANGED fvars
    /\ pc = "direct_config"
    /\ LET a == algorithm_from_name(args.algorithm)
       IN IF a.ok
             THEN /\ config' = [algorithm |-> a.enum_value, xtol_abs |-> args.xtol_abs.data]
                  /\ pc' = "check_size"
                  /\ UNCHANGED error
             ELSE /\ Throw(a.msg)
                  /\ UNCHANGED config
    /\ UNCHANGED <<values, packer, tvars, caller, args, mem, optimizer, log, optim_data,
                   cb, nlopt_calls, closure_io, nlopt_ret, result, output>>

\* An entry point is called with observation data of the dimensions `dims`:
\* init_parameters, of the documented dimensions or not, are converted
\* (Rcpp::as<arma::mat>, Rcpp::as<arma::vec>)
CallEntry ==
    /\ UNCHANGED fvars
    /\ pc = "idle"
    /\ \E entry \in EntryPoints, dims \in EntryDims :
       LET groups == PackedGroups(entry, dims)
       IN \E init_parameters \in InitLists(groups) \cup MismatchedInitLists(groups),
             xtol \in XtolAbsInputs(groups),
             name \in {"LBFGS", "lbfgs", "NELDERMEAD"} :
             /\ caller' = entry
             /\ args' = [dims |-> dims, algorithm |-> name, xtol_abs |-> xtol]
             /\ values' = [i \in 1 .. Len(groups) |->
                              AsGroupObject(groups[i],
                                            list_get(init_parameters, groups[i].name))]
    /\ pc' = "entry_pack"
    /\ UNCHANGED <<packer, tvars, mem, config, optimizer, log, optim_data, cb,
                   nlopt_calls, closure_io, nlopt_ret, result, error, output>>

\* const auto packer = make_packer(init_...); auto parameters = arma::vec(packer.size);
\* packer.pack<..._ID>(parameters, init_...);
EntryMakePacker ==
    /\ UNCHANGED fvars
    /\ pc = "entry_pack"
    /\ LET pk == make_packer(values)
       IN /\ packer' = pk
          /\ \E uninitialised \in Vectors(pk.size) :
                LET r == PackAll(pk, values, uninitialised, 1)
                IN /\ mem' = [mem EXCEPT !.parameters = r.packed]
                   /\ IF r.ok THEN pc' = "from_r_list_xtol_abs" /\ UNCHANGED error
                      ELSE Throw(<<r.err>>)
    /\ UNCHANGED <<values, tvars, caller, args, config, optimizer, log, optim_data, cb,
                   nlopt_calls, closure_io, nlopt_ret, result, output>>

\* from_r_list, lines 96-104: the special handling of xtol_abs
FromRList_xtol_abs ==
    /\ UNCHANGED fvars
    /\ pc = "from_r_list_xtol_abs"
    /\ \E uninitialised \in Vectors(packer.size) :
          LET xtol_abs_r_value == args.xtol_abs
              r == IF is_double(xtol_abs_r_value)
                      THEN Done([k \in 1 .. packer.size |-> as_double(xtol_abs_r_value)])
                   ELSE IF xtol_abs_r_value.type = "list"
                      THEN pack_xtol_abs(packer, PackedGroups(caller, args.dims),
                                         uninitialised, xtol_abs_r_value, 1)
                   ELSE Thrown(uninitialised, "unsupported config[xtol_abs] type: must be double or list of by-parameter values")
          IN IF r.ok
                THEN /\ config' = [config EXCEPT !.xtol_abs = r.packed]
                     /\ pc' = "from_r_list_algorithm"
                     /\ UNCHANGED error
                ELSE /\ Throw(<<r.err>>)
                     /\ UNCHANGED config
    /\ UNCHANGED <<values, packer, tvars, caller, args, mem, optimizer, log, optim_data,
                   cb, nlopt_calls, closure_io, nlopt_ret, result, output>>

\* from_r_list, lines 106-117: algorithm_from_name first, then the other fields
FromRList_algorithm ==
    /\ UNCHANGED fvars
    /\ pc = "from_r_list_algorithm"
    /\ LET a == algorithm_from_name(args.algorithm)
       IN IF a.ok
             THEN /\ config' = [config EXCEPT !.algorithm = a.enum_value]
                  /\ pc' = "check_size"
                  /\ UNCHANGED error
             ELSE /\ Throw(a.msg)
                  /\ UNCHANGED config
    /\ UNCHANGED <<values, packer, tvars, caller, args, mem, optimizer, log, optim_data,
                   cb, nlopt_calls, closure_io, nlopt_ret, result, output>>

\* if(!(config.xtol_abs.n_elem == parameters.n_elem)) throw ...
MCheckSize ==
    /\ UNCHANGED fvars
    /\ pc = "check_size"
    /\ IF ~SizesMatch(config.xtol_abs, mem.parameters)
          THEN Throw(<<"config.xtol_abs size">>)
          ELSE pc' = "nlopt_create" /\ UNCHANGED error
    /\ UNCHANGED <<values, packer, tvars, caller, args, mem, config, optimizer, log,
                   optim_data, cb, nlopt_calls, closure_io, nlopt_ret, result, output>>

\* auto optimizer = unique_ptr(nlopt_create(config.algorithm, parameters.n_elem));
\* if(!optimizer) throw ...   (a null unique_ptr destroys nothing)
MCreate ==
    /\ UNCHANGED fvars
    /\ pc = "nlopt_create"
    /\ \E handle \in {"handle", "NULL"} :
          /\ log' = Append(log, Call("nlopt_create", handle))
          /\ IF handle = "NULL"
                THEN /\ optimizer' = [state |-> "null", n |-> NParameters]
                     /\ Throw(<<"nlopt_create">>)
                ELSE /\ optimizer' = [state |-> "live", n |-> NParameters]
                     /\ pc' = SetterOrder[1]
                     /\ UNCHANGED error
    /\ UNCHANGED <<values, packer, tvars, caller, args, mem, config, optim_data, cb,
                   nlopt_calls, closure_io, nlopt_ret, result, output>>

\* check(nlopt_set_...(optimizer.get(), config....), "nlopt_set_..."): one of the six
\* lines 157-162.  When check throws, the unique_ptr is destroyed by the unwinding.
MSetter ==
    /\ UNCHANGED fvars
    /\ \E i \in 1 .. Len(SetterOrder) :
          /\ pc = SetterOrder[i]
          /\ \E r \in SetterResults :
                LET called == Append(log, Call(SetterOrder[i], r))
                    c == check(r, SetterOrder[i])
                IN IF c.ok
                      THEN /\ log' = called
                           /\ pc' = IF i < Len(SetterOrder) THEN SetterOrder[i + 1]
                                    ELSE "nlopt_set_min_objective"
                           /\ UNCHANGED <<optimizer, error>>
                      ELSE /\ log' = unique_ptr_destructor(optimizer, called)
                           /\ optimizer' = Destroyed(optimizer)
                           /\ Throw(c.err)
    /\ UNCHANGED <<values, packer, tvars, caller, args, mem, config, optim_data, cb,
                   nlopt_calls, closure_io, nlopt_ret, result, output>>

\* OptimData optim_data = {0, ...};
\* if(nlopt_set_min_objective(optimizer.get(), optim_fn, &optim_data) != NLOPT_SUCCESS)
\*     throw ...
MSetMinObjective ==
    /\ UNCHANGED fvars
    /\ pc = "nlopt_set_min_objective"
    /\ optim_data' = [nb_iterations |-> 0]
    /\ \E r \in SetterResults :
          LET called == Append(log, Call("nlopt_set_min_objective", r))
          IN IF r # "NLOPT_SUCCESS"
                THEN /\ log' = unique_ptr_destructor(optimizer, called)
                     /\ optimizer' = Destroyed(optimizer)
                     /\ Throw(<<"nlopt_set_min_objective">>)
                ELSE /\ log' = called
                     /\ pc' = "call_nlopt_optimize"
                     /\ UNCHANGED <<optimizer, error>>
    /\ UNCHANGED <<values, packer, tvars, caller, args, mem, config, cb, nlopt_calls,
                   closure_io, nlopt_ret, result, output>>

\* double objective = 0.; nlopt_optimize(optimizer.get(), parameters.memptr(),
\* &objective): the call is made, nlopt runs.  The algorithm either works on the
\* caller's array in place or on an array of its own.
MOptimize ==
    /\ UNCHANGED fvars
    /\ pc = "call_nlopt_optimize"
    /\ log' = Append(log, Call("nlopt_optimize", "running"))
    /\ \E xptr \in {"parameters", "nlopt_x"} : cb' = [NoCallback EXCEPT !.x = xptr]
    /\ pc' = "nlopt_optimize"
    /\ UNCHANGED <<values, packer, tvars, caller, args, mem, config, optimizer,
                   optim_data, nlopt_calls, closure_io, nlopt_ret, result, error,
                   output>>

\* nlopt, running, invokes the objective: optim_fn(n, x, grad, &optim_data).  x is
\* the array nlopt works on, holding its trial point; grad is an array of nlopt's
\* own holding whatever it held before.
NloptInvokesObjective ==
    /\ UNCHANGED fvars
    /\ pc = "nlopt_optimize"
    /\ nlopt_calls < MaxEvals
    /\ \E trial \in TrialVectors(optimizer.n), stale \in ConstantVectors(optimizer.n) :
          mem' = [mem EXCEPT ![cb.x] = trial, !.nlopt_grad = stale]
    /\ cb' = [cb EXCEPT !.valid = TRUE, !.n = optimizer.n, !.grad = "nlopt_grad"]
    /\ nlopt_calls' = nlopt_calls + 1
    /\ closure_io' = NoClosureIO
    /\ pc' = "optim_fn"
    /\ UNCHANGED <<values, packer, tvars, caller, args, config, optimizer, log,
                   optim_data, nlopt_ret, result, error, output>>

\* optim_fn, lines 175-183: wraps x and grad, counts the evaluation, calls the closure,
\* which returns normally
OptimFn ==
    /\ UNCHANGED fvars
    /\ pc = "optim_fn"
    /\ LET parameters == ArmaVecAux(cb.x, cb.n, FALSE, "copy_x")
           grad_storage == ArmaVecAux(cb.grad, cb.n, FALSE, "copy_grad")
           wrapped == WithViews(mem, parameters, cb.x, grad_storage, cb.grad)
           x == wrapped[parameters.mem]
       IN \E computed \in TrialVectors(parameters.n_elem) :
             LET r == ClosureRun(caller, args.dims, packer, x, wrapped[grad_storage.mem],
                                 computed)
             IN /\ r.ok
                /\ mem' = [wrapped EXCEPT ![grad_storage.mem] = r.packed]
                /\ closure_io' = [valid |-> TRUE, n_parameters |-> parameters.n_elem,
                                  n_gradients |-> grad_storage.n_elem, read |-> x,
                                  wrote |-> computed, packs |-> r.packs]
    /\ optim_data' = IncrementIterations(optim_data)
    /\ pc' = "nlopt_optimize"
    /\ UNCHANGED <<values, packer, tvars, caller, args, config, optimizer, log, cb,
                   nlopt_calls, nlopt_ret, result, error, output>>

\* optim_fn when the closure of an entry point throws: an Armadillo size error
\* (std::logic_error) at the first statement whose operands do not conform, after
\* the gradients packed before it, or a failed decomposition in inv_sympd
\* (std::runtime_error; cpp_optimize_full only), before any gradient is packed.  The
\* exception has to cross nlopt's C frames: either it unwinds to the caller,
\* destroying the unique_ptr on the way, or the process is terminated.
OptimFnThrows ==
    /\ UNCHANGED fvars
    /\ pc = "optim_fn"
    /\ caller # "direct"
    /\ LET parameters == ArmaVecAux(cb.x, cb.n, FALSE, "copy_x")
           grad_storage == ArmaVecAux(cb.grad, cb.n, FALSE, "copy_grad")
           wrapped == WithViews(mem, parameters, cb.x, grad_storage, cb.grad)
           x == wrapped[parameters.mem]
       IN \E computed \in TrialVectors(parameters.n_elem) :
             LET r == ClosureRun(caller, args.dims, packer, x, wrapped[grad_storage.mem],
                                 computed)
             IN \/ /\ ~r.ok
                   /\ mem' = [wrapped EXCEPT ![grad_storage.mem] = r.packed]
                   /\ closure_io' = [valid |-> FALSE, n_parameters |-> parameters.n_elem,
                                     n_gradients |-> grad_storage.n_elem, read |-> x,
                                     wrote |-> <<>>, packs |-> r.packs]
                \/ /\ r.ok
                   /\ caller = "cpp_optimize_full"
                   /\ mem' = wrapped
                   /\ closure_io' = [valid |-> FALSE, n_parameters |-> parameters.n_elem,
                                     n_gradients |-> grad_storage.n_elem, read |-> x,
                                     wrote |-> <<>>, packs |-> <<>>]
    /\ optim_data' = IncrementIterations(optim_data)
    /\ \E unwinds \in BOOLEAN :
          IF unwinds
             THEN /\ log' = unique_ptr_destructor(optimizer, log)
                  /\ optimizer' = Destroyed(optimizer)
                  /\ Throw(<<"objective closure">>)
             ELSE /\ pc' = "terminated"
                  /\ UNCHANGED <<log, optimizer, error>>
    /\ UNCHANGED <<values, packer, tvars, caller, args, config, cb, nlopt_calls,
                   nlopt_ret, result, output>>

\* nlopt_optimize returns: any status, any final point left in the caller's array,
\* any objective value; nlopt's own arrays are gone
NloptOptimizeReturns ==
    /\ UNCHANGED fvars
    /\ pc = "nlopt_optimize"
    /\ \E status \in NloptResults, x \in TrialVectors(optimizer.n), objective \in Values :
          /\ nlopt_ret' = [valid |-> TRUE, status |-> status, x |-> x,
                           objective |-> objective]
          /\ mem' = [NoMem EXCEPT !.parameters = x]
    /\ cb' = NoCallback
    /\ closure_io' = NoClosureIO
    /\ pc' = "return"
    /\ UNCHANGED <<values, packer, tvars, caller, args, config, optimizer, log,
                   optim_data, nlopt_calls, result, error, output>>

\* return OptimizerResult{status, objective, optim_data.nb_iterations};  then the
\* unique_ptr goes out of scope
MReturn ==
    /\ UNCHANGED fvars
    /\ pc = "return"
    /\ result' = OptimizerResult(nlopt_ret.status, nlopt_ret.objective,
                                 optim_data.nb_iterations)
    /\ log' = unique_ptr_destructor(optimizer, log)
    /\ optimizer' = Destroyed(optimizer)
    /\ pc' = IF caller = "direct" THEN "returned" ELSE "entry_post"
    /\ UNCHANGED <<values, packer, tvars, caller, args, mem, config, optim_data, cb,
                   nlopt_calls, closure_io, nlopt_ret, error, output>>

\* After the run an entry point unpacks every group of parameters, computes its
\* derived outputs and returns its list (cpp_optimize_full inverts Sigma with
\* inv_sympd, which throws when the decomposition fails)
EntryPostRun ==
    /\ UNCHANGED fvars
    /\ pc = "entry_post"
    /\ LET u == UnpackAll(packer, mem.parameters)
       IN \E decomposed \in (IF caller = "cpp_optimize_full" THEN BOOLEAN ELSE {TRUE}) :
             IF u.ok /\ PostRunConforms(caller, args.dims, u.values) /\ decomposed
                THEN /\ output' = [names |-> OutputNames(caller),
                                   status |-> nlopt_result_to_int(result.status),
                                   iterations |-> result.nb_iterations,
                                   groups |-> u.values]
                     /\ pc' = "returned"
                     /\ UNCHANGED error
                ELSE /\ Throw(<<IF ~u.ok THEN u.err
                                ELSE IF decomposed THEN "incompatible dimensions"
                                ELSE "inv_sympd">>)
                     /\ UNCHANGED output
    /\ UNCHANGED <<values, packer, tvars, caller, args, mem, config, optimizer, log,
                   optim_data, cb, nlopt_calls, closure_io, nlopt_ret, result>>

Next ==
    \/ CallDirect \/ DirectConfig
    \/ CallEntry \/ EntryMakePacker \/ FromRList_xtol_abs \/ FromRList_algorithm
    \/ MCheckSize \/ MCreate \/ MSetter \/ MSetMinObjective \/ MOptimize
    \/ NloptInvokesObjective \/ OptimFn \/ OptimFnThrows \/ NloptOptimizeReturns
    \/ MReturn \/ EntryPostRun

Spec == Init /\ [][Next]_vars

\* ------------------------------------------------------------------------
\* Properties of the packer

\* Element count of a reference object, and the element counts of the objects
\* before the i-th
ElemCount(v) == v.n_rows * v.n_cols

RECURSIVE ElemsBefore(_, _)
ElemsBefore(vals, i) ==
    IF i <= 1 THEN 0 ELSE ElemsBefore(vals, i - 1) + ElemCount(vals[i - 1])

\* Groups whose slice [offset, offset + count) holds position k (0-based)
GroupsHolding(pk, vals, k) ==
    {i \in 1 .. Len(vals) :
        pk.elements[i].offset <= k /\ k < pk.elements[i].offset + ElemCount(vals[i])}

\* The packer of cpp_internal_tests: z (empty vec), a (4 x 10), b (7), b (7)
TestObjects == <<RefVec(0), RefMat(4, 10), RefVec(7), RefVec(7)>>

\* C1: make_packer gives group i the offset sum of the element counts of groups
\* 0..i-1 and the packer the size sum of all element counts, so that the slices are
\* contiguous, pairwise disjoint and cover [0, size) exactly; the groups of sizes
\* 0, 40 (4 x 10), 7, 7 get offsets 0, 0, 40, 47 and size 54.
C1_OffsetsAreRunningSums ==
    /\ hpc # "make_packer" =>
        /\ Len(packer.elements) = Len(values)
        /\ \A i \in 1 .. Len(values) :
              packer.elements[i].offset = ElemsBefore(values, i)
        /\ packer.size = ElemsBefore(values, Len(values) + 1)
        /\ \A i \in 1 .. Len(values) - 1 :
              packer.elements[i + 1].offset
                  = packer.elements[i].offset + ElemCount(values[i])
        /\ \A k \in 0 .. packer.size - 1 :
              Cardinality(GroupsHolding(packer, values, k)) = 1
        /\ \A i \in 1 .. Len(values) :
              packer.elements[i].offset + ElemCount(values[i]) <= packer.size
    /\ LET t == make_packer(TestObjects)
       IN /\ [i \in 1 .. 4 |-> t.elements[i].offset] = <<0, 0, 40, 47>>
          /\ t.size = 54

\* A packer of two non-empty groups, the first a matrix of two elements
C1_Witness ==
    /\ hpc = "ready"
    /\ Len(values) = 2
    /\ values[1].kind = "mat" /\ values[1].n_rows = 2 /\ values[1].n_cols = 1
    /\ packer.elements[2].offset = 2
    /\ packer.size = 4

\* Same dimensions and same element at every (row, column)
SameValue(a, b) ==
    /\ a.n_rows = b.n_rows
    /\ a.n_cols = b.n_cols
    /\ \A rc \in (1 .. b.n_rows) \X (1 .. b.n_cols) : a.at[rc] = b.at[rc]

\* The expression has the shape of the group's reference object
HasGroupShape(expr, ref) == expr.n_rows = ref.n_rows /\ expr.n_cols = ref.n_cols

\* C2: round trip: once pack<i>(packed, v) has been done with v of the group's
\* shape, unpack<i>(packed) returns a value equal to v at every (row, column),
\* whatever was packed into the other groups in between.
C2_RoundTrip ==
    unpacked # <<>> =>
        \A i \in 1 .. Len(values) :
            (written[i].op = "pack" /\ HasGroupShape(written[i].expr, values[i])) =>
                /\ unpacked[i].ok
                /\ SameValue(unpacked[i].value, written[i].expr)

\* Both groups packed, the first a 1 x 2 matrix with two different elements, then
\* unpacked
C2_Witness ==
    /\ unpacked # <<>>
    /\ Len(values) = 2
    /\ values[1].kind = "mat" /\ values[1].n_rows = 1 /\ values[1].n_cols = 2
    /\ ElemCount(values[2]) = 2
    /\ written[1].op = "pack" /\ written[2].op = "pack"
    /\ HasGroupShape(written[1].expr, values[1])
    /\ written[1].expr.at[<<1, 1>>] # written[1].expr.at[<<1, 2>>]
    /\ unpacked[1].ok

\* The R value is a double: a numeric of length 1 without dim attribute
IsScalarInput(r_value) == Len(r_value.data) = 1 /\ r_value.dim = <<>>

\* The R value has the group's full shape: a numeric vector of the group's length for
\* a vec group, a numeric matrix of the group's dimensions for a mat group
IsFullShapeInput(r_value, ref) ==
    IF ref.kind = "vec"
        THEN r_value.dim = <<>> /\ Len(r_value.data) = ref.n_rows
        ELSE r_value.dim = <<ref.n_rows, ref.n_cols>>

\* Element (r, c) of an R numeric vector or matrix (R stores columns one after another)
RElement(r_value, ref, rc) == r_value.data[(rc[2] - 1) * ref.n_rows + rc[1]]

\* C10: pack_double_or_arma<i> with a scalar input sets every element of group i's
\* slice to that scalar, and with an input of the group's full shape copies it
\* element-wise, so that unpack<i> equals the input; for vec and for mat groups.
C10_ScalarFillsFullShapeCopies ==
    unpacked # <<>> =>
        \A i \in 1 .. Len(values) :
            written[i].op = "pack_double_or_arma" =>
                LET r == written[i].r_value
                    info == packer.elements[i]
                IN /\ IsScalarInput(r) =>
                        /\ unpacked[i].ok
                        /\ HasGroupShape(unpacked[i].value, values[i])
                        /\ \A k \in 1 .. ElemCount(values[i]) :
                              packed[info.offset + k] = r.data[1]
                        /\ \A rc \in (1 .. values[i].n_rows) \X (1 .. values[i].n_cols) :
                              unpacked[i].value.at[rc] = r.data[1]
                   /\ IsFullShapeInput(r, values[i]) =>
                        /\ unpacked[i].ok
                        /\ HasGroupShape(unpacked[i].value, values[i])
                        /\ \A rc \in (1 .. values[i].n_rows) \X (1 .. values[i].n_cols) :
                              unpacked[i].value.at[rc] = RElement(r, values[i], rc)

\* A 1 x 2 mat group filled with the scalar 1 and a vec group of two elements given
\* a full-shape vector of two different elements, then unpacked
C10_Witness ==
    /\ unpacked # <<>>
    /\ Len(values) = 2
    /\ values[1].kind = "mat" /\ values[1].n_rows = 1 /\ values[1].n_cols = 2
    /\ values[2].kind = "vec" /\ values[2].n_rows = 2
    /\ written[1].op = "pack_double_or_arma"
    /\ IsScalarInput(written[1].r_value) /\ written[1].r_value.data[1] = 1
    /\ written[2].op = "pack_double_or_arma"
    /\ IsFullShapeInput(written[2].r_value, values[2])
    /\ written[2].r_value.data[1] # written[2].r_value.data[2]

\* ------------------------------------------------------------------------
\* Properties of minimize_objective_on_parameters

\* How many times an nlopt function has been called
Count(fn) == Cardinality({i \in 1 .. Len(log) : log[i].fn = fn})

\* nlopt_create has returned a handle
Created == \E i \in 1 .. Len(log) : log[i] = Call("nlopt_create", "handle")

\* minimize_objective_on_parameters has been left, by a return or by an exception
\* ("terminated" is the process ending inside nlopt_optimize, which leaves nothing)
Exited == pc \in {"returned", "thrown", "entry_post"}

\* C3: every exit path of minimize_objective_on_parameters releases the handle: when
\* nlopt_create returned one, nlopt_destroy has been called exactly once after the
\* call returned its result or threw for a setter or for the registration of the
\* objective, it is the last nlopt call made, and it is not made before the exit;
\* when the xtol_abs size check failed or nlopt_create returned no handle,
\* nlopt_destroy is never called.
C3_HandleReleasedOnce ==
    /\ Exited => Count("nlopt_destroy") = (IF Created THEN 1 ELSE 0)
    /\ ~Exited => Count("nlopt_destroy") = 0
    /\ \A i \in 1 .. Len(log) : log[i].fn = "nlopt_destroy" => i = Len(log)
    /\ error \in {<<"config.xtol_abs size">>, <<"nlopt_create">>} =>
          /\ pc = "thrown"
          /\ Count("nlopt_destroy") = 0
          /\ optimizer.state # "live"
    /\ (pc = "thrown" /\ error \in {<<SetterOrder[i]>> : i \in 1 .. Len(SetterOrder)}
                                     \cup {<<"nlopt_set_min_objective">>}) =>
          /\ Created
          /\ Count("nlopt_destroy") = 1
    /\ result.valid => Created /\ Count("nlopt_destroy") = 1

\* A setter failed after the handle was created, and the handle was destroyed
C3_Witness ==
    /\ pc = "thrown"
    /\ error = <<"nlopt_set_maxeval">>
    /\ Created
    /\ log[Len(log)] = Call("nlopt_destroy", "void")

\* C4: when config.xtol_abs and parameters differ in length, the size check throws
\* "config.xtol_abs size" with nlopt_create not called, no objective evaluation made
\* and parameters unchanged.
C4_SizeMismatchFailsBeforeCreate ==
    [][(pc = "check_size" /\ Len(config.xtol_abs) # Len(mem.parameters)) =>
          /\ pc' = "thrown"
          /\ error' = <<"config.xtol_abs size">>
          /\ log = <<>> /\ log' = <<>>
          /\ nlopt_calls' = 0
          /\ optimizer' = NoOptimizer
          /\ mem' = mem]_vars

\* The size check rejected an xtol_abs of one element for two parameters
C4_Witness ==
    /\ pc = "thrown"
    /\ error = <<"config.xtol_abs size">>
    /\ Len(mem.parameters) = 2
    /\ Len(config.xtol_abs) = 1
    /\ log = <<>>

\* The ten supported names and the algorithm id of each
TenNames == {"LBFGS_NOCEDAL", "LBFGS", "VAR1", "VAR2", "TNEWTON", "TNEWTON_RESTART",
             "TNEWTON_PRECOND", "TNEWTON_PRECOND_RESTART", "MMA", "CCSAQ"}
IdOfName ==
    [name \in TenNames |->
        CASE name = "LBFGS_NOCEDAL" -> "NLOPT_LD_LBFGS_NOCEDAL"
          [] name = "LBFGS" -> "NLOPT_LD_LBFGS"
          [] name = "VAR1" -> "NLOPT_LD_VAR1"
          [] name = "VAR2" -> "NLOPT_LD_VAR2"
          [] name = "TNEWTON" -> "NLOPT_LD_TNEWTON"
          [] name = "TNEWTON_RESTART" -> "NLOPT_LD_TNEWTON_RESTART"
          [] name = "TNEWTON_PRECOND" -> "NLOPT_LD_TNEWTON_PRECOND"
          [] name = "TNEWTON_PRECOND_RESTART" -> "NLOPT_LD_TNEWTON_PRECOND_RESTART"
          [] name = "MMA" -> "NLOPT_LD_MMA"
          [] name = "CCSAQ" -> "NLOPT_LD_CCSAQ"]

\* The message contains the piece
Contains(msg, piece) == \E i \in 1 .. Len(msg) : msg[i] = piece

\* Before the algorithm name has been looked up
BeforeLookup ==
    pc \in {"idle", "direct_config", "entry_pack", "from_r_list_xtol_abs",
            "from_r_list_algorithm"}

\* What a lookup of args.algorithm does, as from_r_list and the direct call make it
LookupStep ==
    pc \in {"direct_config", "from_r_list_algorithm"} =>
        IF args.algorithm \notin TenNames
           THEN /\ pc' = "thrown"
                /\ Contains(error', args.algorithm)
                /\ \A name \in TenNames : Contains(error', name)
                /\ log' = <<>>
                /\ nlopt_calls' = 0
           ELSE /\ pc' = "check_size"
                /\ error' = <<>>
                /\ config'.algorithm = IdOfName[args.algorithm]

\* No optimizer exists and no evaluation is made for an unsupported name
NeverRunsUnsupported ==
    /\ (caller # "none" /\ args.algorithm \notin TenNames) =>
          /\ BeforeLookup \/ pc = "thrown"
          /\ log = <<>>
          /\ nlopt_calls = 0
          /\ optimizer = NoOptimizer
    /\ (config.algorithm # "" \/ log # <<>>) =>
          /\ args.algorithm \in TenNames
          /\ config.algorithm = IdOfName[args.algorithm]

\* C5: looking up a name that is not one of the ten supported names throws an error
\* whose message contains the requested name and each of the ten supported names;
\* a call (direct or of any entry point) that requests such a name never creates an
\* optimizer and never evaluates the objective; looking up a supported name gives
\* the algorithm id associated with it.
C5_UnsupportedAlgorithmRejected == []NeverRunsUnsupported /\ [][LookupStep]_vars

\* cpp_optimize_rank was asked for "lbfgs" and failed with the message listing the
\* supported names
C5_Witness ==
    /\ caller = "cpp_optimize_rank"
    /\ args.algorithm = "lbfgs"
    /\ pc = "thrown"
    /\ Contains(error, "lbfgs") /\ Contains(error, "LBFGS") /\ Contains(error, "CCSAQ")
    /\ log = <<>>

\* The nlopt calls that configure the optimizer, in program order
SetupOrder == SetterOrder \o <<"nlopt_set_min_objective">>

\* C6: nlopt_optimize is called only after nlopt_set_xtol_abs, nlopt_set_xtol_rel,
\* nlopt_set_ftol_abs, nlopt_set_ftol_rel, nlopt_set_maxeval, nlopt_set_maxtime and
\* nlopt_set_min_objective have been called in that order and each reported
\* NLOPT_SUCCESS; when one reports anything else the call throws an error naming that
\* step, no later setter is called (only nlopt_destroy follows), nlopt_optimize is
\* never called and the objective is never evaluated.
C6_RunOnlyAfterSetupSucceeded ==
    /\ \A i \in 1 .. Len(log) :
          /\ log[i].fn \in {SetupOrder[k] : k \in 1 .. Len(SetupOrder)} =>
                /\ i >= 2 /\ i - 1 <= Len(SetupOrder)
                /\ log[i].fn = SetupOrder[i - 1]
                /\ \A j \in 2 .. i - 1 : log[j].ret = "NLOPT_SUCCESS"
                /\ log[i].ret # "NLOPT_SUCCESS" =>
                      /\ pc = "thrown"
                      /\ error = <<log[i].fn>>
                      /\ Len(log) = i + 1
                      /\ log[i + 1].fn = "nlopt_destroy"
                      /\ Count("nlopt_optimize") = 0
                      /\ nlopt_calls = 0
                      /\ ~result.valid
          /\ log[i].fn = "nlopt_optimize" =>
                /\ i = Len(SetupOrder) + 2
                /\ \A k \in 1 .. Len(SetupOrder) :
                      log[k + 1] = Call(SetupOrder[k], "NLOPT_SUCCESS")
    /\ (nlopt_calls > 0 \/ nlopt_ret.valid \/ result.valid) => Count("nlopt_optimize") = 1

\* The fourth setter reported NLOPT_INVALID_ARGS after three successes
C6_Witness ==
    /\ pc = "thrown"
    /\ error = <<"nlopt_set_ftol_rel">>
    /\ Len(log) = 6
    /\ log[5] = Call("nlopt_set_ftol_rel", "NLOPT_INVALID_ARGS")
    /\ log[4] = Call("nlopt_set_ftol_abs", "NLOPT_SUCCESS")

\* C7: whatever status nlopt_optimize returns, minimize_objective_on_parameters does
\* not throw: it returns an OptimizerResult whose status is that status, and
\* parameters holds the point nlopt left in the array.
C7_StatusReturnedAsData ==
    nlopt_ret.valid =>
        /\ nlopt_ret.status \in NloptResults
        /\ pc \in {"return", "entry_post", "returned"} \/ (caller # "direct" /\ result.valid)
        /\ (caller = "direct" \/ pc \in {"return", "entry_post"}) => error = <<>>
        /\ pc # "return" =>
              /\ result.valid
              /\ result.status = nlopt_ret.status
        /\ mem.parameters = nlopt_ret.x

\* A direct call returned NLOPT_ROUNDOFF_LIMITED with the point <<1, 0>>
C7_Witness ==
    /\ caller = "direct"
    /\ pc = "returned"
    /\ result.valid
    /\ result.status = "NLOPT_ROUNDOFF_LIMITED"
    /\ mem.parameters = <<1, 0>>

\* C8: nb_iterations counts the invocations of the objective callback: it is 0 when
\* nlopt_optimize is called, one more after each invocation, and the result carries
\* the number of invocations nlopt made, whatever the status.
C8_IterationsCountCallbacks ==
    /\ pc = "call_nlopt_optimize" => optim_data.nb_iterations = 0 /\ nlopt_calls = 0
    /\ pc = "optim_fn" => optim_data.nb_iterations = nlopt_calls - 1
    /\ pc # "optim_fn" => optim_data.nb_iterations = nlopt_calls
    /\ result.valid => result.nb_iterations = nlopt_calls

\* Two evaluations, then nlopt reported a failure
C8_Witness ==
    /\ result.valid
    /\ result.status = "NLOPT_FAILURE"
    /\ nlopt_calls = 2
    /\ result.nb_iterations = 2

\* C9: after a callback invocation, the closure has been given two vectors of n
\* elements (n the length of parameters), what it read is nlopt's trial point, and
\* what it wrote as gradient is what nlopt's grad array holds; no copy was made.
C9_ViewsAliasRawArrays ==
    closure_io.valid =>
        /\ cb.valid
        /\ cb.n = Len(mem.parameters)
        /\ closure_io.n_parameters = cb.n
        /\ closure_io.n_gradients = cb.n
        /\ Len(closure_io.read) = cb.n
        /\ \A k \in 1 .. cb.n : closure_io.read[k] = mem[cb.x][k]
        /\ Len(mem[cb.grad]) = cb.n
        /\ \A k \in 1 .. cb.n : mem[cb.grad][k] = closure_io.wrote[k]
        /\ mem.copy_x = <<>> /\ mem.copy_grad = <<>>

\* The closure of an entry point read the trial point <<0, 1>> in nlopt's own array
\* and wrote the gradient <<1, 0>>
C9_Witness ==
    /\ closure_io.valid
    /\ caller = "cpp_optimize_vestep_spherical"
    /\ cb.x = "nlopt_x"
    /\ closure_io.read = <<0, 1>>
    /\ closure_io.wrote = <<1, 0>>
    /\ mem.nlopt_grad = <<1, 0>>

\* ------------------------------------------------------------------------
\* Zero-size groups

\* The group list without its i-th object
WithoutGroup(vals, i) ==
    [k \in 1 .. Len(vals) - 1 |-> IF k < i THEN vals[k] ELSE vals[k + 1]]

\* The value pack<i> is given for a zero-size group: no element, the group's shape
EmptyExpr(ref) == ArmaZeros(ref.n_rows, ref.n_cols)

\* C12: a zero-size group at any position of the group list, first, middle or
\* last, is legal: it gets the offset of the sequential rule, pack on it writes
\* nothing and raises no error, unpack on it returns a value with 0 elements, and
\* the offsets of all other groups are those of the packer built without it.
C12_ZeroSizeGroupLegalAnywhere ==
    hpc # "make_packer" =>
        \A i \in 1 .. Len(values) :
            ElemCount(values[i]) = 0 =>
                /\ packer.elements[i].offset = ElemsBefore(values, i)
                /\ \A k \in 1 .. Len(values) - 1 :
                      make_packer(WithoutGroup(values, i)).elements[k].offset
                          = packer.elements[IF k < i THEN k ELSE k + 1].offset
                /\ hpc = "ready" =>
                      LET r == packer_pack(packer, i, packed, EmptyExpr(values[i]))
                      IN r.ok /\ r.packed = packed
                /\ unpacked # <<>> =>
                      unpacked[i].ok /\ n_elem(unpacked[i].value) = 0

\* ------------------------------------------------------------------------
\* Per-group xtol_abs entries

\* The by-parameter xtol_abs list of the call has an entry that is neither a scalar
\* nor a value of its group's shape
HasMisshapenEntry ==
    /\ caller \in EntryPoints
    /\ args.xtol_abs.type = "list"
    /\ LET groups == PackedGroups(caller, args.dims)
       IN \E i \in 1 .. Len(groups) :
             LET entry == list_get(args.xtol_abs, groups[i].name)
             IN ~IsScalarInput(entry) /\ ~IsFullShapeInput(entry, groups[i])

\* from_r_list has handled configuration["xtol_abs"]
PastXtolAbs == pc \notin {"idle", "entry_pack", "from_r_list_xtol_abs"}

\* C11: a per-group xtol_abs entry that is neither a scalar nor a value of the
\* group's shape (for a matrix group of shape R x C: a C x R matrix, a vector of R*C
\* elements) makes the call fail in from_r_list, before any optimizer instance is
\* created and before any objective evaluation.
C11_MisshapenXtolAbsRejected ==
    (HasMisshapenEntry /\ PastXtolAbs) =>
        /\ pc = "thrown"
        /\ log = <<>>
        /\ nlopt_calls = 0
        /\ config = NoConfig

\* ------------------------------------------------------------------------
\* Initial parameters against observation data

\* Some initial parameter of the call does not have the dimensions the observation
\* data give it (M not n x p, Theta not p x d, ...)
InitMismatchesData ==
    /\ caller \in EntryPoints
    /\ LET groups == PackedGroups(caller, args.dims)
       IN \E i \in 1 .. Len(groups) :
             values[i].n_rows # groups[i].n_rows \/ values[i].n_cols # groups[i].n_cols

\* C13: a mismatch between the shapes of the initial parameters and the observation
\* data is detected eagerly: the optimizer instance is never created (no nlopt call
\* is made) and the objective closure is never evaluated.
C13_ShapeMismatchDetectedEagerly ==
    InitMismatchesData =>
        /\ log = <<>>
        /\ nlopt_calls = 0

\* ------------------------------------------------------------------------
\* What the entry points return

VEStepEntryPoints == {"cpp_optimize_vestep_full", "cpp_optimize_vestep_diagonal",
                      "cpp_optimize_vestep_spherical"}

\* The names of the returned list, as a set
ReturnedNames == {output.names[i] : i \in 1 .. Len(output.names)}

\* The returned list holds status, iterations and the value of every optimized
\* group unpacked from the final point nlopt left in `parameters`
ReturnsStatusAndGroups ==
    LET groups == PackedGroups(caller, args.dims)
    IN /\ {"status", "iterations", "loglik"} \subseteq ReturnedNames
       /\ output.status = nlopt_result_to_int(nlopt_ret.status)
       /\ output.iterations = optim_data.nb_iterations
       /\ Len(output.groups) = Len(groups)
       /\ \A i \in 1 .. Len(groups) :
             /\ groups[i].name \in ReturnedNames
             /\ output.groups[i] = packer_unpack(packer, i, nlopt_ret.x).value

\* C14 as stated: every entry point, the three VE-step variants included, returns
\* status, iterations, its optimized groups at the final point, Z, A and loglik.
C14_EveryVariantReturnsZAndA ==
    (caller \in EntryPoints /\ pc = "returned") =>
        /\ ReturnsStatusAndGroups
        /\ {"Z", "A"} \subseteq ReturnedNames

\* C14 amended: every entry point returns status, iterations, its optimized groups at
\* the final point and loglik; the five model fits also return Z, A and Sigma (full,
\* spherical and diagonal: Omega too); the three VE steps return M, S and loglik only,
\* neither Z nor A nor a covariance.
C14_ReturnedLists ==
    (caller \in EntryPoints /\ pc = "returned") =>
        /\ ReturnsStatusAndGroups
        /\ caller \notin VEStepEntryPoints => {"Z", "A", "Sigma"} \subseteq ReturnedNames
        /\ caller \in {"cpp_optimize_full", "cpp_optimize_spherical",
                       "cpp_optimize_diagonal"} => "Omega" \in ReturnedNames
        /\ caller \in VEStepEntryPoints =>
              ReturnedNames = {"status", "iterations", "M", "S", "loglik"}

\* A VE step has returned after two evaluations, with M = 0 and S = 1 unpacked from
\* the final point
C14_Witness ==
    /\ caller = "cpp_optimize_vestep_full"
    /\ pc = "returned"
    /\ output.iterations = 2
    /\ nlopt_ret.x = <<0, 1>>
    /\ output.groups[2].at[<<1, 1>>] = 1

\* ------------------------------------------------------------------------
\* The model quantities S2, Z and A of one observation (n = p = q = d = 1), as the
\* objective closures and the post-run steps compute them

\* A double is a multiple of 1 / Resolution, held as its integer numerator.  Sums are
\* exact; a product is rounded towards zero to the grid, so that the square of the
\* smallest positive double underflows to 0 as it does in IEEE arithmetic.
Resolution == 2
\* Largest magnitude of the stored scale S, in grid steps
MaxScale == 4

\* a / b rounded towards zero (b > 0)
TruncDiv(a, b) == IF a >= 0 THEN a \div b ELSE -((-a) \div b)

\* a * b and 0.5 * a on doubles
DoubleTimes(a, b) == TruncDiv(a * b, Resolution)
DoubleHalf(a) == TruncDiv(a, 2)
\* The double 1.
DoubleOne == Resolution

\* Mutant of S2: the stored scale itself is taken as the variance
S2_unsquared(S) == S

\* arma::mat S2 = S % S;
S2(S) == DoubleTimes(S, S)

\* arma::mat Z = O + X * Theta.t() + M;   (rank: ... + M * B.t())
Z(pt) ==
    pt.O + DoubleTimes(pt.X, pt.Theta)
         + (IF pt.entry = "cpp_optimize_rank" THEN DoubleTimes(pt.M, pt.B) ELSE pt.M)

\* What the objective closure multiplies by 0.5 inside exp(): S2 (full, diagonal,
\* spherical, vestep_full, vestep_spherical), S2 * (B % B).t() (rank), S (sparse,
\* line 674, and vestep_diagonal, line 812)
closure_variance(pt) ==
    CASE pt.entry = "cpp_optimize_rank" -> DoubleTimes(S2(pt.S), DoubleTimes(pt.B, pt.B))
      [] pt.entry \in {"cpp_optimize_sparse", "cpp_optimize_vestep_diagonal"} -> pt.S
      [] OTHER -> S2(pt.S)

\* What the post-run step multiplies by 0.5 inside exp(): S2, or S2 * (B % B).t()
post_run_variance(pt) ==
    CASE pt.entry = "cpp_optimize_rank" -> DoubleTimes(S2(pt.S), DoubleTimes(pt.B, pt.B))
      [] OTHER -> S2(pt.S)

\* arma::mat A = exp(Z + 0.5 * variance): exp is strictly increasing, so A is held
\* by its logarithm
Computed(pt, variance) ==
    [valid |-> TRUE, S2 |-> S2(pt.S), Z |-> Z(pt), variance |-> variance,
     log_A |-> Z(pt) + DoubleHalf(variance)]

\* The scales, the other parameters and the data of the points
Scales == (-MaxScale) .. MaxScale
Points ==
    {[entry |-> entry, O |-> 0, X |-> DoubleOne, Theta |-> Theta, B |-> B, M |-> M,
      S |-> S] :
        entry \in EntryPoints \ {"cpp_optimize_rank"}, Theta \in {0, DoubleOne}, B \in {0},
        M \in {-DoubleOne, 0, DoubleOne}, S \in Scales}
    \cup {[entry |-> "cpp_optimize_rank", O |-> 0, X |-> DoubleOne, Theta |-> Theta,
           B |-> B, M |-> M, S |-> S] :
             Theta \in {0, DoubleOne}, B \in {DoubleOne, 2 * DoubleOne},
             M \in {-DoubleOne, 0, DoubleOne}, S \in Scales}

\* A variant is called on one observation with some initial parameters
MeanInit ==
    /\ DriverIdle
    /\ values = <<>>
    /\ packer = NoPacker
    /\ packed = <<>>
    /\ hpc = "off"
    /\ written = <<>>
    /\ perr = ""
    /\ unpacked = NotUnpacked
    /\ point \in Points
    /\ in_closure = NotComputed
    /\ in_post_run = NotComputed
    /\ gradients = <<>>
    /\ calls = NoCalls
    /\ ve_step = NoVEStep

\* nlopt evaluates the objective closure at the current parameters
EvaluateClosure ==
    /\ ~in_post_run.valid
    /\ in_closure' = Computed(point, closure_variance(point))
    /\ UNCHANGED <<point, in_post_run, gradients, calls, ve_step>>
    /\ UNCHANGED <<hvars, dvars>>

\* nlopt moves the optimized parameters M and S to another value (the VE steps keep
\* Theta fixed, the model fits keep it here as well)
OptimizerStep ==
    /\ ~in_post_run.valid
    /\ \E M \in {-DoubleOne, 0, DoubleOne}, S \in Scales :
          /\ <<M, S>> # <<point.M, point.S>>
          /\ point' = [point EXCEPT !.M = M, !.S = S]
    /\ in_closure' = NotComputed
    /\ UNCHANGED <<in_post_run, gradients, calls, ve_step>>
    /\ UNCHANGED <<hvars, dvars>>

\* nlopt has returned: the post-run step computes S2, Z and A at the final parameters
PostRunStep ==
    /\ ~in_post_run.valid
    /\ in_post_run' = Computed(point, post_run_variance(point))
    /\ UNCHANGED <<point, in_closure, gradients, calls, ve_step>>
    /\ UNCHANGED <<hvars, dvars>>

MeanNext == EvaluateClosure \/ OptimizerStep \/ PostRunStep

SpecMean == MeanInit /\ [][MeanNext]_vars

\* C15 as stated: for every variant and every finite stored scale S, negative values
\* and values reached after an optimizer step included, the variance S*S used by the
\* closure and by the post-run step is strictly positive.
C15_VarianceStrictlyPositive ==
    /\ in_closure.valid => in_closure.S2 > 0
    /\ in_post_run.valid => in_post_run.S2 > 0

\* The variance is not negative, it is the same for S and -S, and it is 0 exactly when
\* the exact square of S is less than the smallest positive double (S = 0, or S so
\* small that its square underflows)
NonNegativeVariance(c) ==
    /\ c.S2 >= 0
    /\ c.S2 = S2(-point.S)
    /\ c.S2 = 0 <=> point.S * point.S < Resolution

\* C15 amended: for every variant and every finite stored scale S, negative values and
\* values reached after an optimizer step included, the variance S*S used by the
\* closure and by the post-run step is not negative; it is strictly positive unless S
\* is 0 or its square underflows, and then it is 0.
C15_VarianceNonNegative ==
    /\ in_closure.valid => NonNegativeVariance(in_closure)
    /\ in_post_run.valid => NonNegativeVariance(in_post_run)

\* At a negative scale the closure and then the post-run step computed a positive
\* variance
C15_Witness ==
    /\ in_closure.valid /\ in_post_run.valid
    /\ point.entry = "cpp_optimize_spherical"
    /\ point.S = -DoubleOne
    /\ in_closure.S2 = DoubleOne
    /\ in_post_run.S2 = DoubleOne

\* C20: in every model variant the mean matrix A computed inside the objective
\* closure is exp(Z + 0.5 * variance contribution) with the variance contribution
\* built from the square S*S of the stored scale, the same function of the
\* parameters as the A the post-run step computes at the final point.
C20_ClosureMeanIsPostRunMean ==
    (in_closure.valid /\ in_post_run.valid) =>
        /\ in_closure.Z = in_post_run.Z
        /\ in_closure.variance = post_run_variance(point)
        /\ in_closure.log_A = in_post_run.log_A

\* ------------------------------------------------------------------------
\* Objective and gradient of the closures on one observation (n = p = q = d = 1),
\* in exact arithmetic.  A point holds integers here; the objective is a sum of terms
\* coef * f(arg) with f the identity, exp, log or log of the inverse, coef built from
\* the data only and arg a polynomial of degree <= 2 in each parameter.  exp occurs
\* once, in A; a derivative is held as the pair [A, rest] standing for A * exp(...) +
\* rest, both rationals.

\* Largest magnitude of Theta, M and S at the points
MaxGrad == 2
Abs(k) == IF k < 0 THEN -k ELSE k

RECURSIVE Gcd(_, _)
Gcd(a, b) == IF b = 0 THEN a ELSE Gcd(b, a % b)

\* Rationals <<numerator, denominator>> in lowest terms, the denominator positive
Rat(n, d) ==
    LET g == Gcd(Abs(n), Abs(d))
    IN IF d < 0 THEN <<(-n) \div g, (-d) \div g>> ELSE <<n \div g, d \div g>>
RatPlus(a, b) == Rat(a[1] * b[2] + b[1] * a[2], a[2] * b[2])
RatMinus(a, b) == Rat(a[1] * b[2] - b[1] * a[2], a[2] * b[2])
RatTimes(a, b) == Rat(a[1] * b[1], a[2] * b[2])
RatOver(a, b) == Rat(a[1] * b[2], a[2] * b[1])
RatEq(a, b) == a[1] * b[2] = b[1] * a[2]
\* |a| * k <= |b|
RatWithin(a, k, b) == Abs(a[1]) * k * Abs(b[2]) <= Abs(b[1]) * Abs(a[2])

\* The groups each closure packs a gradient for
GradGroups(entry) ==
    [i \in 1 .. Len(PackedGroups(entry, [n |-> 1, p |-> 1, d |-> 1, q |-> 1])) |->
        PackedGroups(entry, [n |-> 1, p |-> 1, d |-> 1, q |-> 1])[i].name]

\* arma::mat Z = O + X * Theta.t() + M;   (rank: ... + M * B.t())
ExactZ(pt) ==
    pt.O + pt.X * pt.Theta + (IF pt.entry = "cpp_optimize_rank" THEN pt.M * pt.B ELSE pt.M)

\* The argument of exp() in A: Z + 0.5 * S2, Z + 0.5 * S2 * (B % B).t() (rank),
\* Z + 0.5 * S (sparse, vestep_diagonal)
ExponentOfA(pt) ==
    Rat(2 * ExactZ(pt)
          + (CASE pt.entry = "cpp_optimize_rank" -> pt.S * pt.S * pt.B * pt.B
               [] pt.entry \in {"cpp_optimize_sparse", "cpp_optimize_vestep_diagonal"} -> pt.S
               [] OTHER -> pt.S * pt.S), 2)

\* M.t() * (M.each_col() % w) + diagmat(w.t() * S2)
nSigma(pt) == pt.w * pt.M * pt.M + pt.w * pt.S * pt.S

\* One term of an objective
Term(coef, f, arg) == [coef |-> coef, f |-> f, arg |-> arg]

\* accu(w.t() * (A - Y % Z)): the terms every objective starts with
MeanTerms(pt) ==
    <<Term(Rat(pt.w, 1), "exp", ExponentOfA(pt)),
      Term(Rat(-(pt.w * pt.Y), 1), "id", Rat(ExactZ(pt), 1))>>

\* The value `objective` of each closure, as its terms (w_bar = w and p = 1 with one
\* observation and one response)
objective(pt) ==
    LET w_bar == pt.w
        log_S2 == Term(Rat(-pt.w, 2), "log", Rat(pt.S * pt.S, 1))
    IN CASE pt.entry = "cpp_optimize_full" ->
              \* ... - 0.5 * w_bar * real(log_det(Omega)), Omega = w_bar * inv_sympd(nSigma)
              MeanTerms(pt) \o <<log_S2,
                  Term(Rat(-w_bar, 2), "log_inverse", Rat(nSigma(pt), w_bar))>>
         [] pt.entry = "cpp_optimize_spherical" ->
              \* ... - 0.5 * p * accu(w % log(S2)) + 0.5 * w_bar * p * log(sigma2)
              MeanTerms(pt) \o <<log_S2,
                  Term(Rat(w_bar, 2), "log", Rat(nSigma(pt), w_bar))>>
         [] pt.entry = "cpp_optimize_diagonal" ->
              \* ... + 0.5 * w_bar * accu(log(diag_sigma))
              MeanTerms(pt) \o <<log_S2,
                  Term(Rat(w_bar, 2), "log", Rat(nSigma(pt), w_bar))>>
         [] pt.entry = "cpp_optimize_rank" ->
              \* ... + 0.5 * accu(diagmat(w) * (M % M + S2 - log(S2) - 1.))
              MeanTerms(pt) \o <<log_S2,
                  Term(Rat(pt.w, 2), "id", Rat(pt.M * pt.M + pt.S * pt.S - 1, 1))>>
         [] pt.entry = "cpp_optimize_sparse" ->
              \* ... - trace(Omega * nSigma)
              MeanTerms(pt) \o <<log_S2,
                  Term(Rat(-1, 1), "id", Rat(pt.Omega * nSigma(pt), 1))>>
         [] pt.entry = "cpp_optimize_vestep_full" ->
              \* ... + 0.5 * trace(Omega * nSigma)
              MeanTerms(pt) \o <<log_S2,
                  Term(Rat(1, 2), "id", Rat(pt.Omega * nSigma(pt), 1))>>
         [] pt.entry = "cpp_optimize_vestep_diagonal" ->
              \* ... + 0.5 * as_scalar(w.t() * (pow(M, 2) + S2) * omega2)
              MeanTerms(pt) \o <<log_S2,
                  Term(Rat(1, 2), "id",
                       Rat(pt.w * (pt.M * pt.M + pt.S * pt.S) * pt.Omega, 1))>>
         [] pt.entry = "cpp_optimize_vestep_spherical" ->
              \* n_sigma2 = dot(w, sum(pow(M, 2), 1) + double(p) * S);
              \* ... - 0.5 * p * dot(w, log(S2)) + 0.5 * n_sigma2 * omega2
              MeanTerms(pt) \o <<log_S2,
                  Term(Rat(1, 2), "id", Rat(pt.w * (pt.M * pt.M + pt.S) * pt.Omega, 1))>>

\* The point moved by h along one parameter
Moved(pt, group, h) ==
    CASE group = "Theta" -> [pt EXCEPT !.Theta = @ + h]
      [] group = "B" -> [pt EXCEPT !.B = @ + h]
      [] group = "M" -> [pt EXCEPT !.M = @ + h]
      [] group = "S" -> [pt EXCEPT !.S = @ + h]

RECURSIVE SumDerivatives(_, _, _, _, _)
\* Central finite difference of the objective along one parameter, term by term:
\* (arg(x + 1) - arg(x - 1)) / 2 is the exact derivative of the polynomial arg, and
\* d exp(arg) = exp(arg) d arg, d log(arg) = d arg / arg
SumDerivatives(at, plus, minus, i, acc) ==
    IF i > Len(at) THEN acc
    ELSE LET d_arg == RatTimes(RatMinus(plus[i].arg, minus[i].arg), Rat(1, 2))
             d == RatTimes(at[i].coef, d_arg)
         IN SumDerivatives(at, plus, minus, i + 1,
               CASE at[i].f = "exp" -> [acc EXCEPT !.A = RatPlus(@, d)]
                 [] at[i].f = "id" -> [acc EXCEPT !.rest = RatPlus(@, d)]
                 [] at[i].f = "log" ->
                       [acc EXCEPT !.rest = RatPlus(@, RatOver(d, at[i].arg))]
                 [] at[i].f = "log_inverse" ->
                       [acc EXCEPT !.rest = RatMinus(@, RatOver(d, at[i].arg))])

finite_difference(pt, group) ==
    SumDerivatives(objective(pt), objective(Moved(pt, group, 1)),
                   objective(Moved(pt, group, -1)), 1, [A |-> Rat(0, 1), rest |-> Rat(0, 1)])

\* a * A + rest, for the gradient expressions
Grad(a, rest) == [A |-> a, rest |-> rest]

\* The expression each closure packs as the gradient of a group
analytic_gradient(pt, group) ==
    LET w == pt.w
        w_bar == pt.w
        Y == pt.Y
        M == pt.M
        S == pt.S
        B == pt.B
        one_over_S == Rat(1, S)
    IN IF group = "Theta"
          \* (A - Y).t() * (X.each_col() % w)
          THEN Grad(Rat(w * pt.X, 1), Rat(-(w * pt.X * Y), 1))
       ELSE CASE pt.entry = "cpp_optimize_full" ->
              LET Omega == Rat(w_bar, nSigma(pt))
              IN IF group = "M"
                    \* diagmat(w) * (M * Omega + A - Y)
                    THEN Grad(Rat(w, 1),
                              RatTimes(Rat(w, 1),
                                       RatMinus(RatTimes(Rat(M, 1), Omega), Rat(Y, 1))))
                    \* diagmat(w) * (S.each_row() % diagvec(Omega).t() + S % A - pow(S, -1))
                    ELSE Grad(Rat(w * S, 1),
                              RatTimes(Rat(w, 1),
                                       RatMinus(RatTimes(Rat(S, 1), Omega), one_over_S)))
         [] pt.entry = "cpp_optimize_spherical" ->
              LET sigma2 == Rat(nSigma(pt), w_bar)
              IN IF group = "M"
                    \* diagmat(w) * (M / sigma2 + A - Y)
                    THEN Grad(Rat(w, 1),
                              RatTimes(Rat(w, 1),
                                       RatMinus(RatOver(Rat(M, 1), sigma2), Rat(Y, 1))))
                    \* w % (S % sum(A, 1) - p * pow(S, -1) - p * S / sigma2)
                    ELSE Grad(Rat(w * S, 1),
                              RatTimes(Rat(w, 1),
                                       RatMinus(RatMinus(Rat(0, 1), one_over_S),
                                                RatOver(Rat(S, 1), sigma2))))
         [] pt.entry = "cpp_optimize_diagonal" ->
              LET diag_sigma == Rat(nSigma(pt), w_bar)
              IN IF group = "M"
                    \* diagmat(w) * ((M.each_row() / diag_sigma) + A - Y)
                    THEN Grad(Rat(w, 1),
                              RatTimes(Rat(w, 1),
                                       RatMinus(RatOver(Rat(M, 1), diag_sigma), Rat(Y, 1))))
                    \* diagmat(w) * (S.each_row() % pow(diag_sigma, -1) + S % A - pow(S, -1))
                    ELSE Grad(Rat(w * S, 1),
                              RatTimes(Rat(w, 1),
                                       RatMinus(RatOver(Rat(S, 1), diag_sigma), one_over_S)))
         [] pt.entry = "cpp_optimize_rank" ->
              (CASE group = "B" ->
                     \* (diagmat(w) * (A - Y)).t() * M + (A.t() * (S2.each_col() % w)) % B
                     Grad(Rat(w * M + w * S * S * B, 1), Rat(-(w * Y * M), 1))
                [] group = "M" ->
                     \* diagmat(w) * ((A - Y) * B + M)
                     Grad(Rat(w * B, 1), Rat(w * (M - Y * B), 1))
                [] group = "S" ->
                     \* diagmat(w) * (S - 1. / S + A * (B % B) % S)
                     Grad(Rat(w * B * B * S, 1),
                          RatTimes(Rat(w, 1), RatMinus(Rat(S, 1), one_over_S))))
         [] pt.entry \in {"cpp_optimize_sparse", "cpp_optimize_vestep_full",
                          "cpp_optimize_vestep_diagonal"} ->
              IF group = "M"
                 \* diagmat(w) * (M * Omega + A - Y)
                 THEN Grad(Rat(w, 1), Rat(w * (M * pt.Omega - Y), 1))
                 \* diagmat(w) * (S.each_row() % diagvec(Omega).t() + S % A - pow(S, -1))
                 \* (vestep_diagonal: S.each_row() % omega2)
                 ELSE Grad(Rat(w * S, 1),
                           RatTimes(Rat(w, 1), RatMinus(Rat(S * pt.Omega, 1), one_over_S)))
         [] pt.entry = "cpp_optimize_vestep_spherical" ->
              IF group = "M"
                 \* diagmat(w) * (M * omega2 + A - Y)
                 THEN Grad(Rat(w, 1), Rat(w * (M * pt.Omega - Y), 1))
                 \* w % (S % sum(A, 1) - p * pow(S, -1) - p * S * omega2)
                 ELSE Grad(Rat(w * S, 1),
                           RatTimes(Rat(w, 1),
                                    RatMinus(RatMinus(Rat(0, 1), one_over_S),
                                             Rat(S * pt.Omega, 1))))

\* The data and the parameters of the points: one observation with weight 1 and
\* covariate 1; S is positive (log(S2) and pow(S, -1) are finite)
GradRange == (-MaxGrad) .. MaxGrad
GradPoints ==
    {[entry |-> entry, Y |-> Y, X |-> 1, O |-> O, w |-> 1, Omega |-> Omega,
      Theta |-> Theta, B |-> 1, M |-> M, S |-> S] :
        entry \in EntryPoints, Y \in {0, 1}, O \in GradRange, Omega \in {1, 2},
        Theta \in {0, 1}, M \in GradRange, S \in 1 .. MaxGrad}

\* A variant is called on one observation with some initial parameters
GradInit ==
    /\ DriverIdle
    /\ values = <<>>
    /\ packer = NoPacker
    /\ packed = <<>>
    /\ hpc = "off"
    /\ written = <<>>
    /\ perr = ""
    /\ unpacked = NotUnpacked
    /\ point \in GradPoints
    /\ in_closure = NotComputed
    /\ in_post_run = NotComputed
    /\ gradients = <<>>
    /\ calls = NoCalls
    /\ ve_step = NoVEStep

\* The objective closure is evaluated at the point and packs its gradients
ObjectiveAndGrad ==
    /\ gradients = <<>>
    /\ gradients' =
          [i \in 1 .. Len(GradGroups(point.entry)) |->
              [group |-> GradGroups(point.entry)[i],
               analytic |-> analytic_gradient(point, GradGroups(point.entry)[i]),
               central |-> <<>>]]
    /\ UNCHANGED <<point, in_closure, in_post_run, calls, ve_step>>
    /\ UNCHANGED <<hvars, dvars>>

\* The objective the closure returns is differenced along one group
CentralDifference ==
    /\ gradients # <<>>
    /\ \E i \in 1 .. Len(gradients) :
          /\ gradients[i].central = <<>>
          /\ gradients' =
                [gradients EXCEPT ![i].central =
                    <<finite_difference(point, gradients[i].group)>>]
    /\ UNCHANGED <<point, in_closure, in_post_run, calls, ve_step>>
    /\ UNCHANGED <<hvars, dvars>>

GradNext == ObjectiveAndGrad \/ CentralDifference

SpecGradient == GradInit /\ [][GradNext]_vars

\* The value a * A + rest where A = 1
AtAOne(g) == RatPlus(g.A, g.rest)

\* |a - b| <= 1e-4 * max(|a|, |b|)
RelativelyClose(a, b) ==
    \/ RatWithin(RatMinus(a, b), 10000, a)
    \/ RatWithin(RatMinus(a, b), 10000, b)

\* Both gradients of group i are known, at a point where the argument of exp() is 0
\* (A = 1 in every element, so both gradients are rationals)
ComparableAt(i) ==
    /\ gradients[i].central # <<>>
    /\ ExponentOfA(point)[1] = 0

\* C16 as stated, at the interior points where A = 1: for every variant and every
\* parameter group, the gradient the closure packs is within 1e-4 relative error of
\* the central difference of the objective the same closure returns.
C16_GradientMatchesFiniteDifference ==
    \A i \in 1 .. Len(gradients) :
        ComparableAt(i) =>
            RelativelyClose(AtAOne(gradients[i].analytic), AtAOne(gradients[i].central[1]))

\* The variants whose packed gradients are the derivatives of their own objective
ConsistentVariants ==
    {"cpp_optimize_full", "cpp_optimize_diagonal", "cpp_optimize_rank",
     "cpp_optimize_vestep_full"}

\* In the consistent variants the two gradients are equal as functions of A
GradientsEqualWhereConsistent ==
    \A i \in 1 .. Len(gradients) :
        (gradients[i].central # <<>> /\ point.entry \in ConsistentVariants) =>
            /\ RatEq(gradients[i].analytic.A, gradients[i].central[1].A)
            /\ RatEq(gradients[i].analytic.rest, gradients[i].central[1].rest)

\* ------------------------------------------------------------------------
\* The gradient vector after an evaluation of the objective closure

\* optim_fn has called the closure of an entry point whose initial parameters have
\* the dimensions of the data, and the closure has returned or thrown
ClosureLeft ==
    /\ caller \in EntryPoints
    /\ ~InitMismatchesData
    /\ closure_io.n_gradients > 0

\* The decomposition of inv_sympd failed in the closure of cpp_optimize_full
DecompositionFailed ==
    caller = "cpp_optimize_full" /\ ~closure_io.valid /\ closure_io.packs = <<>>

\* C19: in every variant an evaluation of the objective closure packs the gradient
\* of every declared parameter group, each at its own packer index in the order of
\* the groups, so that no slice of the gradient vector keeps an earlier value
\* (evaluations that a failed matrix decomposition ends are left aside).
C19_EveryGroupGradientPacked ==
    (ClosureLeft /\ ~DecompositionFailed) =>
        closure_io.packs = [i \in 1 .. Len(packer.elements) |-> i]

\* ------------------------------------------------------------------------
\* Two calls of minimize_objective_on_parameters with their steps interleaved.
\* `calls` holds the stack frame of each call (its packer, parameter vector,
\* configuration, optimizer instance, OptimData and result), the observation data
\* both closures read, and the frames as they were when the calls started.

CallIds == {1, 2}

\* The entry point of each call, on one observation
EntryOfCall == <<"cpp_optimize_full", "cpp_optimize_vestep_full">>
OneObservation == [n |-> 1, p |-> 1, d |-> 1, q |-> 1]

\* What nlopt_optimize does with an optimizer instance: the points it evaluates the
\* objective at (up to MaxEvals of them, alternating from some first value), then the
\* status and the point it returns
NloptScripts(n) ==
    {[trials |-> [j \in 1 .. k |-> [m \in 1 .. n |-> (j + first) % 2]],
      status |-> status, x |-> x] :
        k \in 1 .. MaxEvals, first \in Values,
        status \in {"NLOPT_SUCCESS", "NLOPT_MAXEVAL_REACHED"},
        x \in ConstantVectors(n)}

\* The frame of a call of entry point `entry` when minimize_objective_on_parameters is
\* entered: packer and parameters from init_parameters, configuration from the
\* algorithm name and xtol_abs
Frame(entry, init_parameters, name, script) ==
    LET groups == PackedGroups(entry, OneObservation)
        vals == [i \in 1 .. Len(groups) |->
                    AsGroupObject(groups[i], list_get(init_parameters, groups[i].name))]
        pk == make_packer(vals)
    IN [entry |-> entry,
        packer |-> pk,
        parameters |-> PackAll(pk, vals, [k \in 1 .. pk.size |-> 0], 1).packed,
        config |-> [algorithm |-> algorithm_from_name(name).enum_value,
                    xtol_abs |-> [k \in 1 .. pk.size |-> 1]],
        optimizer |-> [state |-> "unset", n |-> 0, data |-> 0, script |-> script,
                       at |-> 0],
        optim_data |-> NoOptimData,
        x |-> <<>>,
        grad |-> <<>>,
        result |-> NoResult,
        pc |-> "check_size",
        steps |-> 0]

\* The frames call i can start with
Frames(i) ==
    LET groups == PackedGroups(EntryOfCall[i], OneObservation)
    IN {Frame(EntryOfCall[i], init, name, script) :
           init \in InitLists(groups), name \in {"LBFGS"},
           script \in NloptScripts(TotalElems(groups, 1))}

\* Mutant of AddressOfOptimData: one OptimData for every call
AddressOfOptimData_shared(i) == 1

\* &optim_data: the OptimData of a call is a local of its own frame
AddressOfOptimData(i) == i

\* The gradient the closure computes from the point x and the observation data
ComputedGradient(x, data) == [k \in 1 .. Len(x) |-> (x[k] + data) % 2]

\* One step of call i: the size check and nlopt_create, nlopt_set_min_objective,
\* nlopt calling optim_fn, optim_fn with the closure, nlopt_optimize returning and the
\* return of the OptimizerResult.  Only locals of the frame are used, the OptimData
\* through the pointer given to nlopt.
CallStep(st, i) ==
    LET f == st.frames[i]
        counted == [st.frames EXCEPT ![i].steps = @ + 1]
    IN CASE f.pc = "check_size" ->
              IF ~SizesMatch(f.config.xtol_abs, f.parameters)
                 THEN [st EXCEPT !.frames = [counted EXCEPT ![i].pc = "thrown"]]
                 ELSE [st EXCEPT !.frames =
                          [counted EXCEPT ![i].optimizer.state = "created",
                                          ![i].optimizer.n = Len(f.parameters),
                                          ![i].pc = "nlopt_set_min_objective"]]
         [] f.pc = "nlopt_set_min_objective" ->
              [st EXCEPT !.frames =
                  [counted EXCEPT ![i].optim_data = NoOptimData,
                                  ![i].optimizer.data = AddressOfOptimData(i),
                                  ![i].pc = "nlopt_optimize"]]
         [] f.pc = "nlopt_optimize" /\ f.optimizer.at < Len(f.optimizer.script.trials) ->
              [st EXCEPT !.frames =
                  [counted EXCEPT ![i].x = f.optimizer.script.trials[f.optimizer.at + 1],
                                  ![i].grad = [k \in 1 .. f.optimizer.n |-> 0],
                                  ![i].optimizer.at = @ + 1,
                                  ![i].pc = "optim_fn"]]
         [] f.pc = "optim_fn" ->
              LET data == f.optimizer.data
                  r == ClosureRun(f.entry, OneObservation, f.packer, f.x, f.grad,
                                  ComputedGradient(f.x, st.observations))
              IN [st EXCEPT !.frames =
                     [[counted EXCEPT ![data].optim_data =
                                          IncrementIterations(st.frames[data].optim_data)]
                         EXCEPT ![i].grad = r.packed,
                                ![i].pc = IF r.ok THEN "nlopt_optimize" ELSE "thrown"]]
         [] f.pc = "nlopt_optimize" /\ f.optimizer.at = Len(f.optimizer.script.trials) ->
              [st EXCEPT !.frames =
                  [counted EXCEPT ![i].parameters = f.optimizer.script.x,
                                  ![i].result =
                                      OptimizerResult(f.optimizer.script.status, 0,
                                                      f.optim_data.nb_iterations),
                                  ![i].optimizer.state = "destroyed",
                                  ![i].pc = "returned"]]

\* Two calls, each with its own initial parameters, algorithm and optimizer, on the
\* same observation data
TwoCallsInit ==
    /\ DriverIdle
    /\ point = NoPoint
    /\ in_closure = NotComputed
    /\ in_post_run = NotComputed
    /\ gradients = <<>>
    /\ ve_step = NoVEStep
    /\ values = <<>>
    /\ packer = NoPacker
    /\ packed = <<>>
    /\ hpc = "off"
    /\ written = <<>>
    /\ perr = ""
    /\ unpacked = NotUnpacked
    /\ \E observations \in Values, first \in Frames(1), second \in Frames(2) :
          calls = [frames |-> <<first, second>>, observations |-> observations,
                   started |-> <<first, second>>]

\* Some call that has not ended takes its next step
StepCall ==
    /\ \E i \in CallIds :
          /\ calls.frames[i].pc \notin {"returned", "thrown"}
          /\ calls' = CallStep(calls, i)
    /\ UNCHANGED <<point, in_closure, in_post_run, gradients, ve_step>>
    /\ UNCHANGED <<hvars, dvars>>

SpecTwoCalls == TwoCallsInit /\ [][StepCall]_vars

RECURSIVE Alone(_, _, _)
\* The state after call i has taken k steps while the other call takes none
Alone(st, i, k) == IF k = 0 THEN st ELSE Alone(CallStep(st, i), i, k - 1)

\* The calls before their first step
AsStarted == [calls EXCEPT !.frames = calls.started]

\* C17: with the evaluations of two calls interleaved in any order, each call's
\* frame (its parameters, gradient, optimizer, iteration count, status and result)
\* is at every moment what the call alone has after the same number of its own
\* steps; in particular its final parameters, status and iterations are those of the
\* call running alone, whatever the other call did before or meanwhile.
C17_CallsAreIndependent ==
    \A i \in CallIds :
        calls.frames[i] = Alone(AsStarted, i, calls.frames[i].steps).frames[i]

\* Each call has finished one evaluation of its objective and is inside its second
\* one: the evaluations of the two calls are interleaved
C17_Witness ==
    \A i \in CallIds :
        /\ calls.frames[i].pc = "optim_fn"
        /\ calls.frames[i].optim_data.nb_iterations = 1
        /\ calls.frames[i].optimizer.at = 2

\* Both calls have returned, with different iteration counts and parameters
BothReturned ==
    /\ \A i \in CallIds : calls.frames[i].pc = "returned"
    /\ calls.frames[1].result.nb_iterations = 1
    /\ calls.frames[2].result.nb_iterations = 2
    /\ calls.frames[1].parameters # calls.frames[2].parameters

\* ------------------------------------------------------------------------
\* How the variational variance enters the VE steps: the quadratic penalty of the
\* closure's objective and the per-row log-likelihood of the post-run step, on one
\* observation (n = p = 1), in exact arithmetic

\* The summand of `objective` that is quadratic in M and S
quadratic_penalty(pt) ==
    CASE pt.entry = "cpp_optimize_vestep_full" ->
            \* nSigma = M.t() * diagmat(w) * M + diagmat(sum(S2.each_col() % w, 0));
            \* + 0.5 * trace(Omega * nSigma)
            Rat(pt.Omega * (pt.M * pt.w * pt.M + pt.S * pt.S * pt.w), 2)
      [] pt.entry = "cpp_optimize_vestep_diagonal" ->
            \* + 0.5 * as_scalar(w.t() * (pow(M, 2) + S2) * omega2)
            Rat(pt.w * (pt.M * pt.M + pt.S * pt.S) * pt.Omega, 2)
      [] pt.entry = "cpp_optimize_vestep_spherical" ->
            \* n_sigma2 = dot(w, sum(pow(M, 2), 1) + double(p) * S);
            \* + 0.5 * n_sigma2 * omega2
            Rat(pt.w * (pt.M * pt.M + pt.S) * pt.Omega, 2)

\* The terms of the row of `loglik` (ki(Y) depends on the data only)
loglik(pt) ==
    LET Zv == ExactZ(pt)
        S2v == pt.S * pt.S
        common == <<Term(Rat(1, 1), "id", Rat(pt.Y * Zv, 1)),
                    Term(Rat(-1, 1), "exp", Rat(2 * Zv + S2v, 2))>>
    IN CASE pt.entry = "cpp_optimize_vestep_full" ->
              \* sum(Y % Z - A + 0.5 * log(S2)
              \*     - 0.5 * ((M * Omega) % M + S * diagmat(Omega)), 1)
              \*   + 0.5 * real(log_det(Omega)) + ki(Y)
              common \o <<Term(Rat(1, 2), "log", Rat(S2v, 1)),
                          Term(Rat(-1, 2), "id",
                               Rat(pt.M * pt.Omega * pt.M + pt.S * pt.Omega, 1)),
                          Term(Rat(1, 2), "log", Rat(pt.Omega, 1))>>
         [] pt.entry = "cpp_optimize_vestep_diagonal" ->
              \* sum(Y % Z - A + 0.5 * log(S2), 1) - 0.5 * (pow(M, 2) + S2) * omega2
              \*   + 0.5 * sum(log(omega2)) + ki(Y)
              common \o <<Term(Rat(1, 2), "log", Rat(S2v, 1)),
                          Term(Rat(-1, 2), "id",
                               Rat((pt.M * pt.M + S2v) * pt.Omega, 1)),
                          Term(Rat(1, 2), "log", Rat(pt.Omega, 1))>>
         [] pt.entry = "cpp_optimize_vestep_spherical" ->
              \* sum(Y % Z - A - 0.5 * pow(M, 2) * omega2, 1) - 0.5 * double(p) * omega2 * S2
              \*   + 0.5 * double(p) * log(S2 * omega2) + ki(Y)
              common \o <<Term(Rat(1, 2), "log", Rat(S2v * pt.Omega, 1)),
                          Term(Rat(-1, 2), "id",
                               Rat(pt.M * pt.M * pt.Omega + pt.Omega * S2v, 1))>>

\* The points of the VE steps
VEPoints == {pt \in GradPoints : pt.entry \in VEStepEntryPoints}

\* A VE step is called on one observation with some initial parameters
VEInit ==
    /\ DriverIdle
    /\ values = <<>>
    /\ packer = NoPacker
    /\ packed = <<>>
    /\ hpc = "off"
    /\ written = <<>>
    /\ perr = ""
    /\ unpacked = NotUnpacked
    /\ point \in VEPoints
    /\ in_closure = NotComputed
    /\ in_post_run = NotComputed
    /\ gradients = <<>>
    /\ calls = NoCalls
    /\ ve_step = NoVEStep

\* nlopt evaluates the objective closure at the point
VEObjective ==
    /\ ve_step.loglik = <<>>
    /\ ve_step.penalty = <<>>
    /\ ve_step' = [ve_step EXCEPT !.penalty = <<quadratic_penalty(point)>>]
    /\ UNCHANGED <<point, in_closure, in_post_run, gradients, calls>>
    /\ UNCHANGED <<hvars, dvars>>

\* nlopt has returned: the post-run step computes the log-likelihood at the point
VELoglik ==
    /\ ve_step.loglik = <<>>
    /\ ve_step' = [ve_step EXCEPT !.loglik = loglik(point)]
    /\ UNCHANGED <<point, in_closure, in_post_run, gradients, calls>>
    /\ UNCHANGED <<hvars, dvars>>

VENext == VEObjective \/ VELoglik

SpecVEStep == VEInit /\ [][VENext]_vars

\* The quadratic term of a log-likelihood row
QuadraticTerm(terms) ==
    terms[CHOOSE i \in 1 .. Len(terms) : terms[i].f = "id" /\ terms[i].coef = Rat(-1, 2)]

\* C21: in the three VE steps the variational variance enters the quadratic penalty
\* of the objective and the per-row log-likelihood as S*S: the penalty is
\* 0.5 * omega * w * (M^2 + p * S^2) and the quadratic term of the log-likelihood is
\* -0.5 * omega * (M^2 + S^2), with p = 1 here.
C21_VarianceEntersAsSquare ==
    /\ ve_step.penalty # <<>> =>
          RatEq(ve_step.penalty[1],
                Rat(point.Omega * point.w * (point.M * point.M + point.S * point.S), 2))
    /\ ve_step.loglik # <<>> =>
          RatEq(QuadraticTerm(ve_step.loglik).arg,
                Rat(point.Omega * (point.M * point.M + point.S * point.S), 1))

\* The penalty alone, and the log-likelihood alone
PenaltyUsesSquare ==
    ve_step.penalty # <<>> =>
        RatEq(ve_step.penalty[1],
              Rat(point.Omega * point.w * (point.M * point.M + point.S * point.S), 2))
LoglikUsesSquare ==
    ve_step.loglik # <<>> =>
        RatEq(QuadraticTerm(ve_step.loglik).arg,
              Rat(point.Omega * (point.M * point.M + point.S * point.S), 1))

\* ------------------------------------------------------------------------
\* pack on a matrix group with values of any shape

\* pack<i>(packed, expr) is accepted, writes the column-major flattening of expr into
\* the slice of group i, and unpack<i> then returns the matrix of the group's shape
\* with that flattening
PackedColumnMajor(i, expr) ==
    LET r == packer_pack(packer, i, packed, expr)
        u == packer_unpack(packer, i, r.packed)
    IN /\ r.ok
       /\ subvec(r.packed, packer.elements[i].offset, n_elem(expr)) = vectorise(expr)
       /\ u.ok
       /\ HasGroupShape(u.value, values[i])
       /\ vectorise(u.value) = vectorise(expr)

\* C22: pack<i> on a matrix group of shape R x C accepts any value of R*C elements,
\* whatever its shape, writes its elements in column-major order into the group's
\* slice, and unpack<i> then returns the R x C matrix with the same column-major
\* flattening.
C22_MatGroupTakesAnyShape ==
    hpc = "ready" =>
        \A i \in 1 .. Len(values) :
            values[i].kind = "mat" =>
                \A expr \in PackExprs(ElemCount(values[i])) :
                    n_elem(expr) = ElemCount(values[i]) => PackedColumnMajor(i, expr)

\* The same for the matrix groups that have elements
NonEmptyMatGroupTakesAnyShape ==
    hpc = "ready" =>
        \A i \in 1 .. Len(values) :
            (values[i].kind = "mat" /\ ElemCount(values[i]) > 0) =>
                \A expr \in PackExprs(ElemCount(values[i])) :
                    n_elem(expr) = ElemCount(values[i]) => PackedColumnMajor(i, expr)

\* ------------------------------------------------------------------------
\* What pack, pack_double_or_arma and unpack leave alone

\* Element k of the packed vector belongs to the slice of group i
InSlice(i, k) ==
    /\ k > packer.elements[i].offset
    /\ k <= packer.elements[i].offset + InfoSize(packer.elements[i])

\* The step wrote at most group i: no other group has a new last write and every
\* element outside the slice of group i keeps its value
WroteOnlyGroup(i) ==
    /\ \A j \in (1 .. Len(values)) \ {i} : written'[j] = written[j]
    /\ \A k \in 1 .. Len(packed) : ~InSlice(i, k) => packed'[k] = packed[k]

\* C23: pack<i> and pack_double_or_arma<i> change only elements of the slice of
\* group i, the elements of every other slice keep their values and the length of
\* the packed vector is unchanged; unpack does not modify the packed vector.
C23_PackChangesOnlyItsSlice ==
    [][hpc = "ready" =>
          /\ Len(packed') = Len(packed)
          /\ \E i \in 1 .. Len(values) : WroteOnlyGroup(i)
          /\ unpacked' # NotUnpacked => packed' = packed]_vars

\* Two groups of two elements: the second was filled with the double 1, then the
\* first was given two different elements by pack, and the slice of the second still
\* holds 1 in both elements
C23_Witness ==
    /\ hpc = "ready"
    /\ Len(values) = 2
    /\ ElemCount(values[1]) = 2 /\ ElemCount(values[2]) = 2
    /\ written[1].op = "pack"
    /\ written[2].op = "pack_double_or_arma"
    /\ IsScalarInput(written[2].r_value) /\ written[2].r_value.data[1] = 1
    /\ packed = <<0, 1, 1, 1>>
    /\ unpacked # NotUnpacked

\* ------------------------------------------------------------------------
\* The xtol_abs vector of a configuration built by from_r_list

\* from_r_list has returned the configuration of an entry point call
ConfigBuilt == caller \in EntryPoints /\ config.algorithm # ""

\* The groups whose slice holds element k of a vector of the packer
SlicesHolding(k) == {i \in 1 .. Len(packer.elements) : InSlice(i, k)}

\* What the entry of group i in the by-parameter list gives element k of its slice:
\* the entry itself when it is one number, or else its element at that place
EntryAt(i, k) ==
    LET entry == list_get(args.xtol_abs, PackedGroups(caller, args.dims)[i].name)
    IN IF is_double(entry) THEN as_double(entry)
       ELSE entry.data[k - packer.elements[i].offset]

\* C24: the configuration from_r_list builds for a packer has xtol_abs of length
\* packer.size, the length of the parameter vector, so the length check of
\* minimize_objective_on_parameters does not fail in an entry point call; with a
\* double every element is that double; with a by-parameter list every element lies
\* in the slice of exactly one group and has the value that group's entry gives it,
\* which is the vector of the scalar mode when every entry is the same double.
C24_XtolAbsCoversThePacker ==
    /\ caller \in EntryPoints => error # <<"config.xtol_abs size">>
    /\ ConfigBuilt =>
          /\ Len(config.xtol_abs) = packer.size
          /\ Len(config.xtol_abs) = Len(mem.parameters)
          /\ is_double(args.xtol_abs) =>
                \A k \in 1 .. packer.size : config.xtol_abs[k] = as_double(args.xtol_abs)
          /\ args.xtol_abs.type = "list" =>
                /\ \A k \in 1 .. packer.size :
                      /\ Cardinality(SlicesHolding(k)) = 1
                      /\ \A i \in SlicesHolding(k) : config.xtol_abs[k] = EntryAt(i, k)
                /\ \A x \in Values :
                      args.xtol_abs = XtolAbsSameScalar(PackedGroups(caller, args.dims), x)
                          => config.xtol_abs = [k \in 1 .. packer.size |-> x]

\* cpp_optimize_full with two responses was given a by-parameter list with the same
\* double 1 for Theta, M and S, and its call has passed the length check
C24_Witness ==
    /\ caller = "cpp_optimize_full"
    /\ args.dims.p = 2
    /\ args.xtol_abs = XtolAbsSameScalar(PackedGroups(caller, args.dims), 1)
    /\ ConfigBuilt
    /\ pc = "nlopt_create"
    /\ config.xtol_abs = <<1, 1, 1, 1, 1, 1>>

=============================================================================
